---------------------------- MODULE Spec2Model ----------------------------
(***************************************************************************)
(* Verification model of the quantum-number repository (python demos).    *)
(*                                                                         *)
(* The repository holds several independent scripts that each redefine or *)
(* drive the QuantumNumberV8 cell.  Every script is modelled by its own    *)
(* group of variables and its own specification:                           *)
(*                                                                         *)
(*   SpecCarry  - QuantumNumberV8.add / scale_by_int   (Demo28)            *)
(*   SpecChained - the same, add with chained operands (Demo28)            *)
(*   SpecSigns  - toggle_sign, toggle_sign_bit,                            *)
(*                multiply_by, divide_by               (Demo4, Demo5)      *)
(*   SpecDemo7  - multiply / divide / relu_activation  (Demo7)             *)
(*   SpecMesh   - weighted_sum_neighbors on the grid   (Demo17)            *)
(*   SpecLayer23 - QuantumNumberLayer forward / backward (Demo23)          *)
(*   SpecPeers23 - two layers of one caller              (Demo23)          *)
(*   SpecLayer28 - QuantumLayer forward / train_step     (Demo28)          *)
(*   SpecPipeline28 - train_step statement by statement  (Demo28)          *)
(*   SpecLayer24 - QuantumNumberLayer forward / train_step (Demo24)        *)
(*   SpecExample24 - repeated train_step on one example  (Demo24)          *)
(*                                                                         *)
(* A specification leaves the variables of the other groups untouched.    *)
(***************************************************************************)
EXTENDS Integers, Sequences, FiniteSets, TLC

VARIABLES
    \* ---- Demo28: one cell x and the carry cells it owns ----------------
    heap,      \* arena of QuantumNumberV8 objects; address 1 is the cell x
    cpre,      \* the arena as it was before the last operation on x
    cop,       \* the last operation on x: its name and its argument
    acc,       \* per field: the value x stood for when the current run of
               \* add calls started, plus the operands added since
    nops,      \* number of operations performed on x
    \* ---- Demo4 / Demo5: the demo object's self.qnum --------------------
    demo,      \* the class of the demo object: "Demo4" or "Demo5"
    qnum,      \* self.qnum
    slog,      \* the calls made so far, oldest first, each with the qnum
               \* it found
    sbase,     \* qnum.signs when the current run of multiply_by / divide_by
               \* calls started
    \* ---- Demo7: one QuantumNumberV8 handed to the demo's methods -------
    q7,        \* the cell (a feature or a weight)
    log7,      \* the calls made on it so far, each with the cell it found
    \* ---- Demo17: the pool of cells and the last aggregation -----------
    mesh,      \* the cells: the grid nodes, then one weight cell
    wres,      \* the last weighted_sum_neighbors call: the cell it was
               \* called on (0: none yet) and the cell it returned
    \* ---- Demo23: one QuantumNumberLayer and its caller ----------------
    w23,       \* the initial_weights dict, which self.weights refers to
    layer23,   \* the other attributes of the layer
    out23,     \* the dict the last returning forward call gave the caller
    call23,    \* the last call: its name, its arguments, the weights and
               \* biases it found, what it raised and what it returned
    n23,       \* number of calls made on the layer
    peer23,    \* a second layer of the same caller (SpecPeers23 only): its
               \* attributes, whether its self.weights is the dict w23 or
               \* a dict of its own, and the output of its last forward
    \* ---- Demo28: one QuantumLayer and its caller ----------------------
    heap28,    \* arena of the cells of the layer and of the caller's output
    layer28,   \* the layer: per weight and per bias the address of its cell
    out28,     \* the output dict of the caller's last forward call
    call28,    \* the last call: its name, its arguments, the arena and the
               \* layer it found, and what it raised
    n28,       \* number of calls made on the layer
    pc28,      \* the position of the running train_step (SpecPipeline28)
    \* ---- Demo24: one QuantumNumberLayer and its caller ----------------
    layer24,   \* the layer: base, keys, weights and biases
    out24,     \* the output dict of the caller's last forward call
    call24,    \* the last call: its name, its arguments, the layer it
               \* found and what it raised
    n24,       \* number of calls made on the layer
    rate24     \* the learning rate of the run of the scalar example

carryVars == <<heap, cpre, cop, acc, nops>>
signVars == <<demo, qnum, slog, sbase>>
demo7Vars == <<q7, log7>>
meshVars == <<mesh, wres>>
layer23Vars == <<w23, layer23, out23, call23, n23, peer23>>
layer28Vars == <<heap28, layer28, out28, call28, n28, pc28>>
layer24Vars == <<layer24, out24, call24, n24, rate24>>

vars ==
    <<carryVars, signVars, demo7Vars, meshVars, layer23Vars, layer28Vars,
      layer24Vars>>

\* What the actions of one group leave alone.
notCarry ==
    <<signVars, demo7Vars, meshVars, layer23Vars, layer28Vars,
      layer24Vars>>
notSigns ==
    <<carryVars, demo7Vars, meshVars, layer23Vars, layer28Vars,
      layer24Vars>>
notDemo7 ==
    <<carryVars, signVars, meshVars, layer23Vars, layer28Vars,
      layer24Vars>>
notMesh ==
    <<carryVars, signVars, demo7Vars, layer23Vars, layer28Vars,
      layer24Vars>>
notLayer23 ==
    <<carryVars, signVars, demo7Vars, meshVars, layer28Vars,
      layer24Vars>>
notLayer28 ==
    <<carryVars, signVars, demo7Vars, meshVars, layer23Vars,
      layer24Vars>>
notLayer24 ==
    <<carryVars, signVars, demo7Vars, meshVars, layer23Vars, layer28Vars>>

(***************************************************************************)
(* Bounds of the model.                                                    *)
(***************************************************************************)
MaxOps == 3
MaxSignOps == 3
MaxDemo7Ops == 3
MaxReserved == 1

\* Calls made on the Demo23 layer.
MaxLayer23Ops == 3

\* Calls made on the Demo28 layer.
MaxLayer28Ops == 3

\* Calls made on the Demo24 layer.
MaxLayer24Ops == 3

\* Steps of a run of the scalar example.
MaxSteps24 == 6

(***************************************************************************)
(* QuantumNumberV8 (Demo28).                                               *)
(***************************************************************************)
\* The coefficient names the loops of add and scale_by_int iterate over.
Fields == {"a", "b", "c", "d", "e", "f"}

\* None for a pointer attribute.
None == 0

\* QuantumNumberV8.__init__: every attribute zero, every pointer None.
NewCell ==
    [signs |-> 0, metadata |-> 0,
     a |-> 0, b |-> 0, c |-> 0, d |-> 0, e |-> 0, f |-> 0,
     left |-> None, right |-> None, up |-> None, down |-> None,
     in_ |-> None, out |-> None]

\* A fresh cell whose six coefficients are then assigned from v.
CellOf(v) ==
    [NewCell EXCEPT !.a = v.a, !.b = v.b, !.c = v.c,
                    !.d = v.d, !.e = v.e, !.f = v.f]

\* The literal 10 of "if val > 10" and of "val - 10", "val % 10", "val // 10".
CarryThreshold == 10
Radix == 10

\* add: "if val > 10".
AddOverflows(val) == val > CarryThreshold

\* A variant of AddRetained that reduces modulo the radix, as scale_by_int
\* does, while the carry stays the flag 1.
AddRetainedMod(val) == IF AddOverflows(val) THEN val % Radix ELSE val

\* A variant of AddRetained that never stores a zero: a sum of 0 is replaced
\* by 1, as a normalisation of zero denominators would.
AddRetainedNonZero(val) ==
    IF val = 0 THEN 1 ELSE IF AddOverflows(val) THEN val - Radix ELSE val

\* add: what setattr(self, field, ...) stores.
AddRetained(val) == IF AddOverflows(val) THEN val - Radix ELSE val

\* add: what setattr(carry, field, ...) stores.
AddCarry(val) == IF AddOverflows(val) THEN 1 ELSE 0

RECURSIVE add(_, _, _)

\* A variant of add without the "if carry_flag" test: the carry object is
\* pushed into left after every call.
addLinksAlways(h, p, y) ==
    LET val   == [fld \in Fields |-> h[p][fld] + y[fld]]
        carry == [fld \in Fields |-> AddCarry(val[fld])]
        h1 == [h EXCEPT ![p] =
                 [h[p] EXCEPT !.a = AddRetained(val.a), !.b = AddRetained(val.b),
                              !.c = AddRetained(val.c), !.d = AddRetained(val.d),
                              !.e = AddRetained(val.e), !.f = AddRetained(val.f)]]
    IN  IF h1[p].left # None THEN add(h1, h1[p].left, carry)
        ELSE Append([h1 EXCEPT ![p].left = Len(h1) + 1], CellOf(carry))

\* self.add(other), self at address p of arena h, other given by its six
\* coefficients y (add reads nothing else of other).  The carry object is
\* allocated in the arena only when it gets linked; an unlinked carry is
\* garbage no reference reaches.
add(h, p, y) ==
    LET val   == [fld \in Fields |-> h[p][fld] + y[fld]]
        carry == [fld \in Fields |-> AddCarry(val[fld])]
        carry_flag == \E fld \in Fields : AddOverflows(val[fld])
        h1 == [h EXCEPT ![p] =
                 [h[p] EXCEPT !.a = AddRetained(val.a), !.b = AddRetained(val.b),
                              !.c = AddRetained(val.c), !.d = AddRetained(val.d),
                              !.e = AddRetained(val.e), !.f = AddRetained(val.f)]]
    IN  IF ~carry_flag THEN h1
        ELSE IF h1[p].left # None THEN add(h1, h1[p].left, carry)
        ELSE Append([h1 EXCEPT ![p].left = Len(h1) + 1], CellOf(carry))

\* scale_by_int: "if val > 10".
ScaleOverflows(val) == val > CarryThreshold

\* scale_by_int: what setattr(self, field, ...) stores.
ScaleRetained(val) == IF ScaleOverflows(val) THEN val % Radix ELSE val

\* scale_by_int: what setattr(carry, field, ...) stores.
ScaleCarry(val) == IF ScaleOverflows(val) THEN val \div Radix ELSE 0

\* self.scale_by_int(scalar), self at address p of arena h.
scale_by_int(h, p, scalar) ==
    LET val   == [fld \in Fields |-> h[p][fld] * scalar]
        carry == [fld \in Fields |-> ScaleCarry(val[fld])]
        carry_flag == \E fld \in Fields : ScaleOverflows(val[fld])
        h1 == [h EXCEPT ![p] =
                 [h[p] EXCEPT !.a = ScaleRetained(val.a), !.b = ScaleRetained(val.b),
                              !.c = ScaleRetained(val.c), !.d = ScaleRetained(val.d),
                              !.e = ScaleRetained(val.e), !.f = ScaleRetained(val.f)]]
    IN  IF ~carry_flag THEN h1
        ELSE IF h1[p].left # None THEN add(h1, h1[p].left, carry)
        ELSE Append([h1 EXCEPT ![p].left = Len(h1) + 1], CellOf(carry))

\* The cells reached from p through left, p first.
RECURSIVE Chain(_, _)
Chain(h, p) == IF p = None THEN <<>> ELSE <<p>> \o Chain(h, h[p].left)

\* The mixed-radix value of one field along the left chain of p:
\* sum over k of chain[k].field * 10^k.
RECURSIVE ChainValue(_, _, _)
ChainValue(h, p, fld) ==
    IF p = None THEN 0 ELSE h[p][fld] + Radix * ChainValue(h, h[p].left, fld)

ChainValues(h, p) == [fld \in Fields |-> ChainValue(h, p, fld)]

\* The address of the cell x.
X == 1

(***************************************************************************)
(* Inputs of the Demo28 operations.                                        *)
(***************************************************************************)
\* Coefficient values of an operand: a negative one, one more below base/2,
\* the 6 and 7 of the carry example, and one of twice the radix.
FieldVals == {-3, 4, 6, 7, 20}

\* Operand cells: no left chain, a and f hold p, b and d hold q, and the
\* denominators c and e are zero.
Operands ==
    {[a |-> p, b |-> q, c |-> 0, d |-> q, e |-> 0, f |-> p] :
        p \in FieldVals, q \in FieldVals}

Scalars == {-1, 0, 1, 2, 15}

NoOp == [name |-> "none", y |-> [fld \in Fields |-> 0], scalar |-> 0]

CarryInit ==
    /\ heap = <<NewCell>>
    /\ cpre = <<NewCell>>
    /\ cop = NoOp
    /\ acc = [fld \in Fields |-> 0]
    /\ nops = 0

\* x.add(y) for an operand y without a left chain.
Add(y) ==
    /\ nops < MaxOps
    /\ heap' = add(heap, X, y)
    /\ cpre' = heap
    /\ cop' = [name |-> "add", y |-> y, scalar |-> 0]
    /\ acc' = [fld \in Fields |-> acc[fld] + y[fld]]
    /\ nops' = nops + 1
    /\ UNCHANGED notCarry

\* x.scale_by_int(s).  The run of add calls that acc follows starts again
\* from the value x stands for afterwards.
Scale(s) ==
    /\ nops < MaxOps
    /\ heap' = scale_by_int(heap, X, s)
    /\ cpre' = heap
    /\ cop' = [name |-> "scale_by_int", y |-> [fld \in Fields |-> 0], scalar |-> s]
    /\ acc' = ChainValues(heap', X)
    /\ nops' = nops + 1
    /\ UNCHANGED notCarry

NextCarry ==
    \/ \E y \in Operands : Add(y)
    \/ \E s \in Scalars : Scale(s)

(***************************************************************************)
(* x.add(y) for an operand y that has a left chain of its own, as the tmp  *)
(* cell of QuantumLayer.forward has after tmp.scale_by_int(...).           *)
(***************************************************************************)
\* The operand at address p of arena h: its six coefficients, and under
\* "left" the coefficients of the cells of its left chain, nearest first.
OperandOf(h, p) ==
    LET chain == Chain(h, h[p].left)
    IN  [a |-> h[p].a, b |-> h[p].b, c |-> h[p].c,
         d |-> h[p].d, e |-> h[p].e, f |-> h[p].f,
         left |-> [k \in 1..Len(chain) |->
                      [fld \in Fields |-> h[chain[k]][fld]]]]

\* The mixed-radix value of one field of the cells cs, the first weighing 1.
RECURSIVE CellsValue(_, _)
CellsValue(cs, fld) ==
    IF cs = <<>> THEN 0 ELSE cs[1][fld] + Radix * CellsValue(Tail(cs), fld)

\* The value an operand with a left chain stands for in one field.
OperandValue(y, fld) == y[fld] + Radix * CellsValue(y.left, fld)

\* Operands with a left chain: a fresh cell holding 6 or 7 in a and f and
\* 6 or 7 in b and d, scaled by 2 or by 15.
ChainedOperands ==
    {OperandOf(scale_by_int(<<CellOf(y)>>, 1, s), 1) :
        y \in {v \in Operands : v.a \in {6, 7} /\ v.b \in {6, 7}},
        s \in {2, 15}}

\* x.add(y) for an operand y with a left chain.
AddChained(y) ==
    /\ nops < MaxOps
    /\ heap' = add(heap, X, y)
    /\ cpre' = heap
    /\ cop' = [name |-> "add", y |-> y, scalar |-> 0]
    /\ acc' = [fld \in Fields |-> acc[fld] + y[fld]]
    /\ nops' = nops + 1
    /\ UNCHANGED notCarry

NextChained ==
    \/ \E y \in Operands : Add(y)
    \/ \E s \in Scalars : Scale(s)
    \/ \E y \in ChainedOperands : AddChained(y)

(***************************************************************************)
(* QuantumNumberV8Demo4 and QuantumNumberV8Demo5: the sign bitfield.       *)
(***************************************************************************)
\* Python's x ^ y on non-negative integers, bit by bit.
RECURSIVE BitXor(_, _)
BitXor(x, y) ==
    IF x = 0 /\ y = 0 THEN 0
    ELSE (IF x % 2 = y % 2 THEN 0 ELSE 1) + 2 * BitXor(x \div 2, y \div 2)

\* Python's x | y on non-negative integers, bit by bit (used by the variant
\* toggle_sign_or only).
RECURSIVE BitOr(_, _)
BitOr(x, y) ==
    IF x = 0 /\ y = 0 THEN 0
    ELSE (IF x % 2 = 1 \/ y % 2 = 1 THEN 1 ELSE 0) + 2 * BitOr(x \div 2, y \div 2)

\* Python's 1 << n.
ShiftLeftOne(n) == 2 ^ n

\* Bit i of a sign bitfield: (signs >> i) & 1, as print_state reads it.
SignBit(signs, i) == (signs \div ShiftLeftOne(i)) % 2

\* A variant of toggle_sign that sets the bit instead of flipping it.
toggle_sign_or(q, term_index) ==
    [q EXCEPT !.signs = BitOr(q.signs, ShiftLeftOne(term_index))]

\* Demo4.toggle_sign(term_index): self.qnum.signs ^= (1 << term_index).
toggle_sign(q, term_index) ==
    [q EXCEPT !.signs = BitXor(q.signs, ShiftLeftOne(term_index))]

\* Demo5.toggle_sign_bit(term_index): self.qnum.signs ^= (1 << term_index).
toggle_sign_bit(q, term_index) ==
    [q EXCEPT !.signs = BitXor(q.signs, ShiftLeftOne(term_index))]

\* A variant of multiply_by that toggles the bit of a only.
multiply_by_a_only(q, factor) ==
    LET q1 == IF factor < 0 THEN toggle_sign_bit(q, 0) ELSE q
        f1 == IF factor < 0 THEN -factor ELSE factor
    IN  [q1 EXCEPT !.e = q1.e + f1]

\* Demo5.multiply_by(factor).
multiply_by(q, factor) ==
    LET q1 == IF factor < 0
              THEN toggle_sign_bit(toggle_sign_bit(q, 0), 3)
              ELSE q
        f1 == IF factor < 0 THEN -factor ELSE factor
    IN  [q1 EXCEPT !.e = q1.e + f1]

\* Demo5.divide_by(divisor).
divide_by(q, divisor) ==
    LET q1 == IF divisor < 0
              THEN toggle_sign_bit(toggle_sign_bit(q, 1), 4)
              ELSE q
        d1 == IF divisor < 0 THEN -divisor ELSE divisor
    IN  [q1 EXCEPT !.f = q1.f + d1]

\* The qnum both demo classes build in __init__.
DemoQnum ==
    [NewCell EXCEPT !.a = 10, !.b = 2, !.c = 1, !.d = 5, !.e = 3, !.f = 1,
                    !.signs = 0]

TermIndices == 0 .. 5

\* Factors and divisors of the calls: the four of Demo5.demo and a zero.
Factors == {3, -2, 0}
Divisors == {5, -4, 0}

SignsIdle ==
    /\ demo = "Demo4"
    /\ qnum = DemoQnum
    /\ slog = <<>>
    /\ sbase = 0

SignsInit ==
    /\ demo \in {"Demo4", "Demo5"}
    /\ qnum = DemoQnum
    /\ slog = <<>>
    /\ sbase = 0

LogCall(name, arg) == Append(slog, [name |-> name, arg |-> arg, pre |-> qnum])

\* Demo4: self.toggle_sign(i).
ToggleSign(i) ==
    /\ demo = "Demo4"
    /\ Len(slog) < MaxSignOps
    /\ qnum' = toggle_sign(qnum, i)
    /\ slog' = LogCall("toggle_sign", i)
    /\ sbase' = qnum'.signs
    /\ UNCHANGED <<demo, notSigns>>

\* Demo5: self.toggle_sign_bit(i).
ToggleSignBit(i) ==
    /\ demo = "Demo5"
    /\ Len(slog) < MaxSignOps
    /\ qnum' = toggle_sign_bit(qnum, i)
    /\ slog' = LogCall("toggle_sign_bit", i)
    /\ sbase' = qnum'.signs
    /\ UNCHANGED <<demo, notSigns>>

\* Demo5: self.multiply_by(k).
MultiplyBy(k) ==
    /\ demo = "Demo5"
    /\ Len(slog) < MaxSignOps
    /\ qnum' = multiply_by(qnum, k)
    /\ slog' = LogCall("multiply_by", k)
    /\ UNCHANGED <<demo, sbase, notSigns>>

\* Demo5: self.divide_by(k).
DivideBy(k) ==
    /\ demo = "Demo5"
    /\ Len(slog) < MaxSignOps
    /\ qnum' = divide_by(qnum, k)
    /\ slog' = LogCall("divide_by", k)
    /\ UNCHANGED <<demo, sbase, notSigns>>

NextSigns ==
    \/ \E i \in TermIndices : ToggleSign(i)
    \/ \E i \in TermIndices : ToggleSignBit(i)
    \/ \E k \in Factors : MultiplyBy(k)
    \/ \E k \in Divisors : DivideBy(k)

(***************************************************************************)
(* QuantumNumberV8Demo7: multiply, divide, relu_activation.                *)
(***************************************************************************)
\* Python's x & y on non-negative integers, bit by bit.
RECURSIVE BitAnd(_, _)
BitAnd(x, y) ==
    IF x = 0 \/ y = 0 THEN 0
    ELSE (IF x % 2 = 1 /\ y % 2 = 1 THEN 1 ELSE 0) + 2 * BitAnd(x \div 2, y \div 2)

\* Python's x & ~m on non-negative integers: the bits of x that m lacks.
RECURSIVE BitAndNot(_, _)
BitAndNot(x, m) ==
    IF x = 0 THEN 0
    ELSE (IF x % 2 = 1 /\ m % 2 = 0 THEN 1 ELSE 0) + 2 * BitAndNot(x \div 2, m \div 2)

\* Demo7.multiply(qnum, factor, sign_flip).
multiply(q, factor, sign_flip) ==
    [q EXCEPT !.e = q.e + factor,
              !.signs = IF sign_flip THEN BitXor(q.signs, 1) ELSE q.signs,
              !.metadata = q.metadata + 1]

\* Demo7.divide(qnum, factor, sign_flip).
divide(q, factor, sign_flip) ==
    [q EXCEPT !.f = q.f + factor,
              !.signs = IF sign_flip THEN BitXor(q.signs, 8) ELSE q.signs,
              !.metadata = q.metadata + 1]

\* A variant of relu_activation that zeroes a but leaves its sign bit set.
relu_activation_keeps_sign(q) ==
    IF BitAnd(q.signs, 1) # 0
    THEN [q EXCEPT !.a = 0, !.metadata = q.metadata + 1]
    ELSE q

\* Demo7.relu_activation(qnum).
relu_activation(q) ==
    IF BitAnd(q.signs, 1) # 0
    THEN [q EXCEPT !.a = 0,
                   !.signs = BitAndNot(q.signs, 1),
                   !.metadata = q.metadata + 1]
    ELSE q

\* The cells Demo7.__init__ builds: features[0], features[1], features[2]
\* and a weight.
Demo7Cells ==
    { [NewCell EXCEPT !.a = 12, !.b = 3, !.c = 1, !.d = 4, !.e = 2, !.f = 1,
                      !.signs = 1],
      [NewCell EXCEPT !.a = 7, !.b = 2, !.c = 1, !.d = 5, !.e = 3, !.f = 1,
                      !.signs = 2],
      [NewCell EXCEPT !.a = 9, !.b = 4, !.c = 1, !.d = 3, !.e = 1, !.f = 1,
                      !.signs = 4],
      [NewCell EXCEPT !.a = 1, !.b = 1, !.c = 1, !.d = 1, !.e = 1, !.f = 1,
                      !.signs = 0, !.metadata = 1] }

\* The factors of Demo7.demo.
Factors7 == {1, 3}

Demo7Idle ==
    /\ q7 = NewCell
    /\ log7 = <<>>

Demo7Init ==
    /\ q7 \in Demo7Cells
    /\ log7 = <<>>

LogCall7(name, arg, flip) ==
    Append(log7, [name |-> name, arg |-> arg, flip |-> flip, pre |-> q7])

\* self.multiply(q7, factor, sign_flip).
Multiply(factor, sign_flip) ==
    /\ Len(log7) < MaxDemo7Ops
    /\ q7' = multiply(q7, factor, sign_flip)
    /\ log7' = LogCall7("multiply", factor, sign_flip)
    /\ UNCHANGED notDemo7

\* self.divide(q7, factor, sign_flip).
Divide(factor, sign_flip) ==
    /\ Len(log7) < MaxDemo7Ops
    /\ q7' = divide(q7, factor, sign_flip)
    /\ log7' = LogCall7("divide", factor, sign_flip)
    /\ UNCHANGED notDemo7

\* self.relu_activation(q7).
Relu ==
    /\ Len(log7) < MaxDemo7Ops
    /\ q7' = relu_activation(q7)
    /\ log7' = LogCall7("relu_activation", 0, FALSE)
    /\ UNCHANGED notDemo7

NextDemo7 ==
    \/ \E k \in Factors7, flip \in BOOLEAN : Multiply(k, flip)
    \/ \E k \in Factors7, flip \in BOOLEAN : Divide(k, flip)
    \/ Relu

(***************************************************************************)
(* QuantumNumberV8 of Demo17 and the grid of QuantumNumberV8Demo17.        *)
(***************************************************************************)
\* QuantumNumberV8.__init__(signs, metadata, a, b, c, d, e, f): the pointers
\* start as None.
Cell17(signs, metadata, a, b, c, d, e, f) ==
    [NewCell EXCEPT !.signs = signs, !.metadata = metadata,
                    !.a = a, !.b = b, !.c = c, !.d = d, !.e = e, !.f = f]

\* A copy that carries the coefficients only and resets signs and metadata.
copyCoefficientsOnly(q) == Cell17(0, 0, q.a, q.b, q.c, q.d, q.e, q.f)

\* self.copy(): a new cell with the signs, metadata and coefficients of q.
copy(q) == Cell17(q.signs, q.metadata, q.a, q.b, q.c, q.d, q.e, q.f)

\* self.add(other) of Demo17: elementwise, no carry.
add17(q, other) ==
    [q EXCEPT !.a = q.a + other.a, !.b = q.b + other.b, !.c = q.c + other.c,
              !.d = q.d + other.d, !.e = q.e + other.e, !.f = q.f + other.f]

\* A variant of NeighborLinks that also walks in_.
NeighborLinksWithIn == <<"up", "down", "left", "right", "in_">>

\* The pointers weighted_sum_neighbors walks, in its order.
NeighborLinks == <<"up", "down", "left", "right">>

\* The loop of weighted_sum_neighbors over links[k..]: result.add(neighbor)
\* for each neighbor that is present.
RECURSIVE AddNeighbors(_, _, _, _, _)
AddNeighbors(m, c, result, links, k) ==
    IF k > Len(links) THEN result
    ELSE LET neighbor == m[c][links[k]]
         IN  AddNeighbors(m, c,
                 IF neighbor # None THEN add17(result, m[neighbor]) ELSE result,
                 links, k + 1)

\* self.weighted_sum_neighbors(), self at address c of pool m.
weighted_sum_neighbors(m, c) == AddNeighbors(m, c, copy(m[c]), NeighborLinks, 1)

\* grid_size of QuantumNumberV8Demo17.
GridSize == 3

NodeCount == GridSize * GridSize

\* Address of the weight cell of the pool (weights[0]).
WeightCell == NodeCount + 1

\* The links the grid builder sets on the node with 0-based index idx.
GridLinks(idx, q) ==
    LET r == idx \div GridSize
        col == idx % GridSize
    IN  [q EXCEPT !.left  = IF col > 0 THEN (idx - 1) + 1 ELSE None,
                  !.right = IF col < GridSize - 1 THEN (idx + 1) + 1 ELSE None,
                  !.up    = IF r > 0 THEN (idx - GridSize) + 1 ELSE None,
                  !.down  = IF r < GridSize - 1 THEN (idx + GridSize) + 1 ELSE None]

\* The pool QuantumNumberV8Demo17.__init__ builds: node i is
\* QuantumNumberV8(a=i+1), linked into the grid; the weight is
\* QuantumNumberV8(a=1.0).
Demo17Pool ==
    [i \in 1 .. NodeCount + 1 |->
        IF i = WeightCell THEN Cell17(0, 0, 1, 0, 0, 0, 0, 0)
        ELSE GridLinks(i - 1, Cell17(0, 0, (i - 1) + 1, 0, 0, 0, 0, 0))]

\* The same grid built from cells constructed with every argument given.
FullArgsPool ==
    [i \in 1 .. NodeCount + 1 |->
        IF i = WeightCell THEN Cell17(5, 2, 1, 1, 0, 1, 0, 1)
        ELSE GridLinks(i - 1,
                 Cell17(i, i + 1, (i - 1) + 1, 2, 0, 0 - i, 10 * i, 1))]

\* The relations spatial aggregation does not use.
ReservedLinks == {"in_", "out"}

ReservedSet(m) ==
    {<<c, dir>> \in (1 .. Len(m)) \X ReservedLinks : m[c][dir] # None}

NoResult == [cell |-> 0, result |-> NewCell]

MeshIdle ==
    /\ mesh = Demo17Pool
    /\ wres = NoResult

MeshInit ==
    /\ mesh \in {Demo17Pool, FullArgsPool}
    /\ wres = NoResult

\* How many reserved relations of the pool are set.
ReservedCount == Cardinality(ReservedSet(mesh))

\* A caller assigns mesh[c].in_ or mesh[c].out.
SetReserved(c, dir, t) ==
    /\ mesh' = [mesh EXCEPT ![c][dir] = t]
    /\ wres' = NoResult
    /\ UNCHANGED notMesh

\* mesh[c].weighted_sum_neighbors().
WeightedSum(c) ==
    /\ wres' = [cell |-> c, result |-> weighted_sum_neighbors(mesh, c)]
    /\ UNCHANGED <<mesh, notMesh>>

NextMesh ==
    \/ /\ ReservedCount < MaxReserved
       /\ \E c \in 1 .. Len(mesh), dir \in ReservedLinks, t \in 1 .. Len(mesh) :
             SetReserved(c, dir, t)
    \/ \E c \in 1 .. Len(mesh) : WeightedSum(c)

(***************************************************************************)
(* QuantumNumberLayer of Demo23: integer weights, per-key bases.            *)
(*                                                                         *)
(* A Python dict is a function whose domain is the set of its keys; a key  *)
(* lookup outside the domain raises KeyError.  A call is recorded with the *)
(* exception it raised ("None": it returned) and the value it returned.    *)
(***************************************************************************)
\* The empty dict {}.
EmptyDict == [k \in {} |-> 0]

\* d[k] = v on a dict: the key is added when it is new.
SetItem(d, k, v) == [x \in (DOMAIN d) \cup {k} |-> IF x = k THEN v ELSE d[x]]

\* The remainder of a division that truncates towards zero: the result has
\* the sign of a.
TruncatedMod(a, b) ==
    LET r == (IF a < 0 THEN -a ELSE a) % (IF b < 0 THEN -b ELSE b)
    IN  IF a < 0 THEN -r ELSE r

\* Python's a % b on integers, b # 0: the result has the sign of b.
PyMod(a, b) == IF b > 0 THEN a % b ELSE -((-a) % (-b))

\* QuantumNumberLayer(input_keys, output_keys, bases, initial_weights):
\* the attributes of the new layer other than self.weights, which is the
\* caller's initial_weights object itself and is held in w23.
QuantumNumberLayer(input_keys, output_keys, bases) ==
    [input_keys |-> input_keys, output_keys |-> output_keys, bases |-> bases,
     biases |-> [k \in {output_keys[n] : n \in 1..Len(output_keys)} |-> 0]]

\* The inner loop of forward from the n-th input key on: total plus
\* weight * input for each key, or the KeyError of the first failed lookup.
RECURSIVE WeightedTotal(_, _, _, _, _)
WeightedTotal(row, input_qn, input_keys, n, total) ==
    IF n > Len(input_keys) THEN [raised |-> "None", total |-> total]
    ELSE IF input_keys[n] \notin DOMAIN row
            \/ input_keys[n] \notin DOMAIN input_qn
         THEN [raised |-> "KeyError", total |-> total]
         ELSE WeightedTotal(row, input_qn, input_keys, n + 1,
                            total + row[input_keys[n]] * input_qn[input_keys[n]])

\* The outer loop of forward from the n-th output key on, output_qn being
\* the dict built so far.
RECURSIVE ForwardFrom(_, _, _, _, _)
ForwardFrom(layer, weights, input_qn, n, output_qn) ==
    IF n > Len(layer.output_keys)
    THEN [raised |-> "None", returns |-> "dict", value |-> output_qn]
    ELSE LET out_k == layer.output_keys[n]
             t == WeightedTotal(weights[out_k], input_qn, layer.input_keys,
                                1, layer.biases[out_k])
         IN  IF out_k \notin DOMAIN weights
             THEN [raised |-> "KeyError", returns |-> "None",
                   value |-> EmptyDict]
             ELSE IF t.raised # "None"
             THEN [raised |-> t.raised, returns |-> "None",
                   value |-> EmptyDict]
             ELSE IF out_k \notin DOMAIN layer.bases
             THEN [raised |-> "KeyError", returns |-> "None",
                   value |-> EmptyDict]
             ELSE IF layer.bases[out_k] = 0
             THEN [raised |-> "ZeroDivisionError", returns |-> "None",
                   value |-> EmptyDict]
             ELSE ForwardFrom(layer, weights, input_qn, n + 1,
                      SetItem(output_qn, out_k,
                              PyMod(t.total, layer.bases[out_k])))

\* layer.forward(input_qn).
forward23(layer, weights, input_qn) ==
    ForwardFrom(layer, weights, input_qn, 1, EmptyDict)

\* A weight step that leaves out the input factor.
WeightStepNoInput(learning_rate, error, v) == learning_rate * error

\* The step added to weights[out_k][in_k].
WeightStep(learning_rate, error, v) == learning_rate * error * v

\* The step added to biases[out_k].
BiasStep(learning_rate, error) == learning_rate * error

\* The update loops of backward, from output key n and position m on:
\* position 0 is the bias of the output key, position m >= 1 its weight for
\* the m-th input key.  st holds the weights and biases as updated so far;
\* a failed lookup raises with what has been stored until then.
RECURSIVE UpdateFrom(_, _, _, _, _, _, _)
UpdateFrom(layer, st, input_qn, errors, learning_rate, n, m) ==
    IF n > Len(layer.output_keys)
    THEN [raised |-> "None", weights |-> st.weights, biases |-> st.biases]
    ELSE LET out_k == layer.output_keys[n]
         IN  IF m = 0
             THEN UpdateFrom(layer,
                      [st EXCEPT !.biases[out_k] =
                           @ + BiasStep(learning_rate, errors[out_k])],
                      input_qn, errors, learning_rate, n, 1)
             ELSE IF m > Len(layer.input_keys)
             THEN UpdateFrom(layer, st, input_qn, errors, learning_rate,
                             n + 1, 0)
             ELSE LET in_k == layer.input_keys[m]
                  IN  IF \/ out_k \notin DOMAIN st.weights
                         \/ in_k \notin DOMAIN st.weights[out_k]
                         \/ in_k \notin DOMAIN input_qn
                      THEN [raised |-> "KeyError", weights |-> st.weights,
                            biases |-> st.biases]
                      ELSE UpdateFrom(layer,
                               [st EXCEPT !.weights[out_k][in_k] =
                                    @ + WeightStep(learning_rate,
                                                   errors[out_k],
                                                   input_qn[in_k])],
                               input_qn, errors, learning_rate, n, m + 1)

\* The keys of a key list.
KeySet(keys) == {keys[n] : n \in 1..Len(keys)}

\* layer.backward(input_qn, target_qn, output_qn, learning_rate): the local
\* errors dict is filled for every output key first, then biases and weights
\* are updated in place.  The method has no return statement.
backward23(layer, weights, input_qn, target_qn, output_qn, learning_rate) ==
    IF \E k \in KeySet(layer.output_keys) :
           k \notin DOMAIN target_qn \/ k \notin DOMAIN output_qn
    THEN [raised |-> "KeyError", weights |-> weights,
          biases |-> layer.biases]
    ELSE UpdateFrom(layer, [weights |-> weights, biases |-> layer.biases],
                    input_qn,
                    [k \in KeySet(layer.output_keys) |->
                         target_qn[k] - output_qn[k]],
                    learning_rate, 1, 0)

(***************************************************************************)
(* The Demo23 script: one layer, the caller's inputs, targets and outputs. *)
(***************************************************************************)
\* initial_weights of demo23_ml.
InitialWeights23 ==
    [x |-> [a |-> 1, b |-> 2, c |-> 1], y |-> [a |-> 0, b |-> 1, c |-> 3]]

\* The bases handed to the constructor: those of demo23_ml, a dict that
\* configures no base for the output key y, and dicts whose base for the
\* output key x is 1, 0 or negative (the constructor stores any dict).
Bases23 ==
    { [a |-> 10, b |-> 10, c |-> 10, x |-> 7, y |-> 5],
      [a |-> 10, b |-> 10, c |-> 10, x |-> 7],
      [a |-> 10, b |-> 10, c |-> 10, x |-> 1, y |-> 5],
      [a |-> 10, b |-> 10, c |-> 10, x |-> 0, y |-> 5],
      [a |-> 10, b |-> 10, c |-> 10, x |-> -3, y |-> 5] }

\* Inputs: two of the training data, and a dict without the key b.
Inputs23 ==
    { [a |-> 1, b |-> 2, c |-> 3], [a |-> 3, b |-> 1, c |-> 0],
      [a |-> 1, c |-> 3] }

\* Targets: two of the training data, the all-zero target, and a dict
\* without the key y.
Targets23 ==
    { [x |-> 5, y |-> 4], [x |-> 6, y |-> 2], [x |-> 0, y |-> 0], [x |-> 5] }

\* Outputs a caller may pass besides the one forward returned last: a dict
\* without the key y.
Outputs23 == { [x |-> 3] }

\* Learning rates: the default 1, and 2.
Rates23 == {1, 2}

\* No call has been made yet.
NoCall23 ==
    [op |-> "none", input |-> EmptyDict, target |-> EmptyDict,
     output |-> EmptyDict, learning_rate |-> 0,
     weights |-> EmptyDict, biases |-> EmptyDict,
     raised |-> "None", returns |-> "None", value |-> EmptyDict]

Layer23Idle ==
    /\ w23 = EmptyDict
    /\ layer23 = EmptyDict
    /\ out23 = EmptyDict
    /\ call23 = NoCall23
    /\ n23 = 0
    /\ peer23 = EmptyDict

\* qlayer = QuantumNumberLayer(input_keys, output_keys, bases,
\* initial_weights), with the keys of demo23_ml.
Layer23Init ==
    /\ w23 = InitialWeights23
    /\ layer23 \in {QuantumNumberLayer(<<"a", "b", "c">>, <<"x", "y">>, bases)
                       : bases \in Bases23}
    /\ out23 = EmptyDict
    /\ call23 = NoCall23
    /\ n23 = 0
    /\ peer23 = EmptyDict

\* output_qn = qlayer.forward(input_qn); the caller keeps the dict when the
\* call returns.
Forward23(input_qn) ==
    /\ n23 < MaxLayer23Ops
    /\ LET r == forward23(layer23, w23, input_qn)
       IN  /\ call23' = [NoCall23 EXCEPT
                            !.op = "forward", !.input = input_qn,
                            !.weights = w23, !.biases = layer23.biases,
                            !.raised = r.raised, !.returns = r.returns,
                            !.value = r.value]
           /\ out23' = IF r.raised = "None" THEN r.value ELSE out23
    /\ n23' = n23 + 1
    /\ UNCHANGED <<w23, layer23, peer23, notLayer23>>

\* qlayer.backward(input_qn, target_qn, output_qn, learning_rate).
Backward23(input_qn, target_qn, output_qn, learning_rate) ==
    /\ n23 < MaxLayer23Ops
    /\ LET r == backward23(layer23, w23, input_qn, target_qn, output_qn,
                           learning_rate)
       IN  /\ w23' = r.weights
           /\ layer23' = [layer23 EXCEPT !.biases = r.biases]
           /\ call23' = [NoCall23 EXCEPT
                            !.op = "backward", !.input = input_qn,
                            !.target = target_qn, !.output = output_qn,
                            !.learning_rate = learning_rate,
                            !.weights = w23, !.biases = layer23.biases,
                            !.raised = r.raised]
    /\ n23' = n23 + 1
    /\ UNCHANGED <<out23, peer23, notLayer23>>

NextLayer23 ==
    \/ \E input_qn \in Inputs23 : Forward23(input_qn)
    \/ \E input_qn \in Inputs23, target_qn \in Targets23,
          output_qn \in {out23} \cup Outputs23, learning_rate \in Rates23 :
          Backward23(input_qn, target_qn, output_qn, learning_rate)

(***************************************************************************)
(* Two layers of one caller (Demo23).  The constructor stores the          *)
(* initial_weights argument itself (self.weights = initial_weights), so a  *)
(* second layer built from the dict the first was built from refers to the *)
(* same dict w23; a second layer built from a dict of its own holds that   *)
(* dict.                                                                   *)
(***************************************************************************)
\* bases of demo23_ml.
DemoBases23 == [a |-> 10, b |-> 10, c |-> 10, x |-> 7, y |-> 5]

\* The second layer: QuantumNumberLayer(input_keys, output_keys, bases, d)
\* where d is the first layer's initial_weights object (shares) or another
\* dict with equal entries.
SecondLayer(shares) ==
    [layer |-> QuantumNumberLayer(<<"a", "b", "c">>, <<"x", "y">>,
                                  DemoBases23),
     shares |-> shares,
     weights |-> IF shares THEN EmptyDict ELSE InitialWeights23,
     out |-> EmptyDict]

\* self.weights of the second layer.
PeerWeights == IF peer23.shares THEN w23 ELSE peer23.weights

Peers23Init ==
    /\ w23 = InitialWeights23
    /\ layer23 = QuantumNumberLayer(<<"a", "b", "c">>, <<"x", "y">>,
                                    DemoBases23)
    /\ out23 = EmptyDict
    /\ call23 = NoCall23
    /\ n23 = 0
    /\ peer23 \in {SecondLayer(shares) : shares \in BOOLEAN}

\* The second layer's forward(input_qn); the call record holds the weights
\* and biases of the first layer as the call found them.
PeerForward23(input_qn) ==
    /\ n23 < MaxLayer23Ops
    /\ LET r == forward23(peer23.layer, PeerWeights, input_qn)
       IN  /\ call23' = [NoCall23 EXCEPT
                            !.op = "peer.forward", !.input = input_qn,
                            !.weights = w23, !.biases = layer23.biases,
                            !.raised = r.raised, !.returns = r.returns,
                            !.value = r.value]
           /\ peer23' = [peer23 EXCEPT
                            !.out = IF r.raised = "None" THEN r.value ELSE @]
    /\ n23' = n23 + 1
    /\ UNCHANGED <<w23, layer23, out23, notLayer23>>

\* The second layer's backward(input_qn, target_qn, output_qn,
\* learning_rate) with the output of its own last forward call.
PeerBackward23(input_qn, target_qn, learning_rate) ==
    /\ n23 < MaxLayer23Ops
    /\ LET r == backward23(peer23.layer, PeerWeights, input_qn, target_qn,
                           peer23.out, learning_rate)
       IN  /\ w23' = IF peer23.shares THEN r.weights ELSE w23
           /\ peer23' = [peer23 EXCEPT
                            !.layer.biases = r.biases,
                            !.weights = IF peer23.shares THEN @
                                        ELSE r.weights]
           /\ call23' = [NoCall23 EXCEPT
                            !.op = "peer.backward", !.input = input_qn,
                            !.target = target_qn, !.output = peer23.out,
                            !.learning_rate = learning_rate,
                            !.weights = w23, !.biases = layer23.biases,
                            !.raised = r.raised]
    /\ n23' = n23 + 1
    /\ UNCHANGED <<layer23, out23, notLayer23>>

NextPeers23 ==
    \/ \E input_qn \in Inputs23 : Forward23(input_qn)
    \/ \E input_qn \in Inputs23, target_qn \in Targets23,
          learning_rate \in Rates23 :
          Backward23(input_qn, target_qn, out23, learning_rate)
    \/ \E input_qn \in Inputs23 : PeerForward23(input_qn)
    \/ \E input_qn \in Inputs23, target_qn \in Targets23,
          learning_rate \in Rates23 :
          PeerBackward23(input_qn, target_qn, learning_rate)

(***************************************************************************)
(* QuantumLayer of Demo28: weights and biases are QuantumNumberV8 cells.   *)
(*                                                                         *)
(* The cells of the layer and of the caller's last output live in one      *)
(* arena.  An object no reference reaches any more (a tmp, a delta, an     *)
(* output the caller has dropped) is removed from the arena at the end of  *)
(* the call, and the remaining cells are numbered in the order in which    *)
(* the layer's weights, its biases and the caller's output reach them.     *)
(***************************************************************************)
\* Python evaluates a statement before it runs the next one: v, with first
\* evaluated beforehand.  The value is that of v.
Eager(first, v) == IF first = first THEN v ELSE v

\* dict.get(k, default).
Get(d, k, default) == IF k \in DOMAIN d THEN d[k] ELSE default

\* The elements of a sequence.
Range(seq) == {seq[n] : n \in 1..Len(seq)}

\* seq followed by those of items that it does not hold yet.
RECURSIVE AppendNew(_, _)
AppendNew(seq, items) ==
    IF items = <<>> THEN seq
    ELSE LET seq1 == IF Head(items) \in Range(seq) THEN seq
                     ELSE Append(seq, Head(items))
         IN  Eager(seq1, AppendNew(seq1, Tail(items)))

\* The cells the references roots reach through left, in order of reach.
RECURSIVE Reached(_, _, _)
Reached(h, roots, seq) ==
    IF roots = <<>> THEN seq
    ELSE LET seq1 == AppendNew(seq, Chain(h, Head(roots)))
         IN  Eager(seq1, Reached(h, Tail(roots), seq1))

\* The arena without the cells that roots do not reach, and the new address
\* of every cell that stays.
Compact(h, roots) ==
    LET live == Reached(h, roots, <<>>)
        at == [p \in Range(live) |-> CHOOSE k \in 1..Len(live) : live[k] = p]
    IN  [heap |-> [k \in 1..Len(live) |->
                      [h[live[k]] EXCEPT
                          !.left = IF @ = None THEN None ELSE at[@]]],
         at |-> at]

\* The references a layer holds, weights first (output by output), then
\* biases, followed by those of an output dict.
RECURSIVE RowRefs(_, _, _)
RowRefs(layer, o, m) ==
    IF m > Len(layer.inputs) THEN <<>>
    ELSE <<layer.weights[o][layer.inputs[m]]>> \o RowRefs(layer, o, m + 1)

RECURSIVE WeightRefs(_, _)
WeightRefs(layer, n) ==
    IF n > Len(layer.outputs) THEN <<>>
    ELSE RowRefs(layer, layer.outputs[n], 1) \o WeightRefs(layer, n + 1)

RECURSIVE DictRefs(_, _, _)
DictRefs(d, keys, n) ==
    IF n > Len(keys) THEN <<>>
    ELSE (IF keys[n] \in DOMAIN d THEN <<d[keys[n]]>> ELSE <<>>)
         \o DictRefs(d, keys, n + 1)

Roots28(layer, output) ==
    WeightRefs(layer, 1) \o DictRefs(layer.biases, layer.outputs, 1)
    \o DictRefs(output, layer.outputs, 1)

\* The layer and an output dict with every reference moved to its new
\* address.
Relocate(layer, at) ==
    [layer EXCEPT
        !.weights = [o \in DOMAIN @ |-> [i \in DOMAIN @[o] |-> at[@[o][i]]]],
        !.biases = [o \in DOMAIN @ |-> at[@[o]]]]

RelocateDict(d, at) == [k \in DOMAIN d |-> at[d[k]]]

\* A variant of QuantumLayer whose biases dict holds one and the same cell
\* under every output key.
QuantumLayerOneBias(inputs, outputs) ==
    LET ni == Len(inputs)
        no == Len(outputs)
    IN  [heap |-> [k \in 1..(no * ni + 1) |-> [NewCell EXCEPT !.a = 1]],
         layer |->
            [inputs |-> inputs, outputs |-> outputs,
             weights |-> [o \in Range(outputs) |-> [i \in Range(inputs) |->
                 ((CHOOSE n \in 1..no : outputs[n] = o) - 1) * ni
                 + (CHOOSE m \in 1..ni : inputs[m] = i)]],
             biases |-> [o \in Range(outputs) |-> no * ni + 1]]]

\* QuantumLayer(inputs, outputs): a cell with a = 1 per weight and per bias.
\* The key lists stand for the iteration order of the two dicts.
QuantumLayer(inputs, outputs) ==
    LET ni == Len(inputs)
        no == Len(outputs)
    IN  [heap |-> [k \in 1..(no * ni + no) |-> [NewCell EXCEPT !.a = 1]],
         layer |->
            [inputs |-> inputs, outputs |-> outputs,
             weights |-> [o \in Range(outputs) |-> [i \in Range(inputs) |->
                 ((CHOOSE n \in 1..no : outputs[n] = o) - 1) * ni
                 + (CHOOSE m \in 1..ni : inputs[m] = i)]],
             biases |-> [o \in Range(outputs) |->
                 no * ni + (CHOOSE n \in 1..no : outputs[n] = o)]]]

\* tmp of forward: a fresh cell given the coefficients of q and scaled by
\* scalar.  The carry of the scaling hangs on tmp.left, in an arena of its
\* own here since nothing else refers to tmp.
ScaledCopy(q, scalar) == scale_by_int(<<CellOf(q)>>, 1, scalar)[1]

\* The inner loop of forward from the m-th input on: sum_qnum.add(tmp).
RECURSIVE SumInputs(_, _, _, _, _, _)
SumInputs(h, layer, o, input_vector, sum_qnum, m) ==
    IF m > Len(layer.inputs) THEN h
    ELSE LET i == layer.inputs[m]
             tmp == ScaledCopy(h[layer.weights[o][i]],
                               Get(input_vector, i, 0))
             h1 == add(h, sum_qnum, tmp)
         IN  Eager(h1, SumInputs(h1, layer, o, input_vector, sum_qnum,
                                 m + 1))

\* A variant of SumCell that accumulates into the bias cell of the output
\* instead of a fresh cell.
SumCellIsBias(h, layer, o) == [heap |-> h, at |-> layer.biases[o]]

\* sum_qnum = QuantumNumberV8() of forward: the arena with the fresh cell,
\* and the address of the cell.
SumCell(h, layer, o) == [heap |-> Append(h, NewCell), at |-> Len(h) + 1]

\* The outer loop of forward from the n-th output on.
RECURSIVE ForwardOutputs(_, _, _, _, _)
ForwardOutputs(h, layer, input_vector, n, output) ==
    IF n > Len(layer.outputs) THEN [heap |-> h, output |-> output]
    ELSE LET o == layer.outputs[n]
             s == SumCell(h, layer, o)
             sum_qnum == s.at
             h1 == SumInputs(s.heap, layer, o, input_vector, sum_qnum, 1)
             h2 == add(h1, sum_qnum, h1[layer.biases[o]])
         IN  Eager(h2, ForwardOutputs(h2, layer, input_vector, n + 1,
                                      SetItem(output, o, sum_qnum)))

\* layer.forward(input_vector): the arena with the new output cells, and
\* the output dict.
forward28(h, layer, input_vector) ==
    ForwardOutputs(h, layer, input_vector, 1, EmptyDict)

\* delta and bias_delta of train_step: a fresh cell whose a is then set.
DeltaCell(v) == [NewCell EXCEPT !.a = v]

\* The weight loop of train_step for output o, from the m-th input on.
RECURSIVE UpdateWeights28(_, _, _, _, _, _, _)
UpdateWeights28(h, layer, o, error_a, input_vector, learning_rate, m) ==
    IF m > Len(layer.inputs) THEN h
    ELSE LET i == layer.inputs[m]
             delta == DeltaCell(error_a * Get(input_vector, i, 0)
                                * learning_rate)
             h1 == add(h, layer.weights[o][i], delta)
         IN  Eager(h1, UpdateWeights28(h1, layer, o, error_a, input_vector,
                                       learning_rate, m + 1))

\* The output loop of train_step from the n-th output on; a target without
\* the key raises with the updates made until then.
RECURSIVE TrainOutputs28(_, _, _, _, _, _, _)
TrainOutputs28(h, layer, output, input_vector, target_vector, rate, n) ==
    IF n > Len(layer.outputs) THEN [raised |-> "None", heap |-> h]
    ELSE LET o == layer.outputs[n]
             error_a == target_vector[o] - h[output[o]].a
             h1 == UpdateWeights28(h, layer, o, error_a, input_vector,
                                   rate, 1)
             h2 == add(h1, layer.biases[o], DeltaCell(error_a * rate))
         IN  IF o \notin DOMAIN target_vector
             THEN [raised |-> "KeyError", heap |-> h]
             ELSE Eager(h2, TrainOutputs28(h2, layer, output, input_vector,
                                           target_vector, rate,
                                           n + 1))

\* layer.train_step(input_vector, target_vector, learning_rate).
train_step28(h, layer, input_vector, target_vector, learning_rate) ==
    LET f == forward28(h, layer, input_vector)
    IN  Eager(f, TrainOutputs28(f.heap, layer, f.output, input_vector,
                                target_vector, learning_rate, 1))

(***************************************************************************)
(* The Demo28 script: one layer and its caller.                            *)
(***************************************************************************)
\* Input vectors: two of the training data, the zero vector, vectors with
\* components above the carry threshold or adding up beyond it, a vector
\* without the key b and one with the extra key z.
Inputs28 ==
    { [a |-> 1, b |-> 2, c |-> 3], [a |-> 3, b |-> 1, c |-> 0],
      [a |-> 0, b |-> 0, c |-> 0], [a |-> 12, b |-> 0, c |-> 0],
      [a |-> 7, b |-> 8, c |-> 9],
      [a |-> 1, c |-> 3], [a |-> 1, b |-> 2, c |-> 3, z |-> 9] }

\* Training pairs: two of the training data, the zero vector with the zero
\* target, an input without the key b, and a target without the key y.
Samples28 ==
    { <<[a |-> 1, b |-> 2, c |-> 3], [x |-> 5, y |-> 4]>>,
      <<[a |-> 3, b |-> 1, c |-> 0], [x |-> 6, y |-> 2]>>,
      <<[a |-> 0, b |-> 0, c |-> 0], [x |-> 0, y |-> 0]>>,
      <<[a |-> 1, c |-> 3], [x |-> 5, y |-> 4]>>,
      <<[a |-> 1, b |-> 2, c |-> 3], [x |-> 5]>> }

\* Learning rates: the default 1.
Rates28 == {1}

\* No call is running: the position of the caller between two calls.
IdlePos ==
    [phase |-> "idle", back |-> "idle", n |-> 0, m |-> 0, sum |-> None,
     output |-> EmptyDict, error |-> 0, p |-> None, y |-> NewCell]

\* No call has been made yet.  A call is recorded with the arena, the
\* layer and the caller's output dict it found, and with the name and the
\* input of the call made before it.
NoCall28 ==
    [op |-> "none", input |-> EmptyDict, target |-> EmptyDict,
     learning_rate |-> 0, heap |-> <<>>, layer |-> EmptyDict,
     out |-> EmptyDict, prev |-> [op |-> "none", input |-> EmptyDict],
     raised |-> "None"]

Layer28Idle ==
    /\ heap28 = <<>>
    /\ layer28 = EmptyDict
    /\ out28 = EmptyDict
    /\ call28 = NoCall28
    /\ n28 = 0
    /\ pc28 = IdlePos

\* layer = QuantumLayer(inputs, outputs), with the keys of demo28.
Layer28Init ==
    /\ heap28 = QuantumLayer(<<"a", "b", "c">>, <<"x", "y">>).heap
    /\ layer28 = QuantumLayer(<<"a", "b", "c">>, <<"x", "y">>).layer
    /\ out28 = EmptyDict
    /\ call28 = NoCall28
    /\ n28 = 0
    /\ pc28 = IdlePos

\* out = layer.forward(inp): the caller drops the output it held before.
Forward28(input_vector) ==
    /\ n28 < MaxLayer28Ops
    /\ LET f == forward28(heap28, layer28, input_vector)
           c == Compact(f.heap, Roots28(layer28, f.output))
       IN  /\ heap28' = c.heap
           /\ layer28' = Relocate(layer28, c.at)
           /\ out28' = RelocateDict(f.output, c.at)
    /\ call28' = [NoCall28 EXCEPT
                     !.op = "forward", !.input = input_vector,
                     !.heap = heap28, !.layer = layer28, !.out = out28,
                     !.prev = [op |-> call28.op, input |-> call28.input]]
    /\ n28' = n28 + 1
    /\ UNCHANGED <<pc28, notLayer28>>

\* layer.train_step(inp, target, learning_rate); the caller keeps the output
\* of its last forward call.
TrainStep28(input_vector, target_vector, learning_rate) ==
    /\ n28 < MaxLayer28Ops
    /\ LET r == train_step28(heap28, layer28, input_vector, target_vector,
                             learning_rate)
           c == Compact(r.heap, Roots28(layer28, out28))
       IN  /\ heap28' = c.heap
           /\ layer28' = Relocate(layer28, c.at)
           /\ out28' = RelocateDict(out28, c.at)
           /\ call28' = [NoCall28 EXCEPT
                            !.op = "train_step", !.input = input_vector,
                            !.target = target_vector,
                            !.learning_rate = learning_rate,
                            !.heap = heap28, !.layer = layer28,
                            !.out = out28,
                            !.prev = [op |-> call28.op,
                                      input |-> call28.input],
                            !.raised = r.raised]
    /\ n28' = n28 + 1
    /\ UNCHANGED <<pc28, notLayer28>>

NextLayer28 ==
    \/ \E input_vector \in Inputs28 : Forward28(input_vector)
    \/ \E s \in Samples28, learning_rate \in Rates28 :
          TrainStep28(s[1], s[2], learning_rate)

(***************************************************************************)
(* train_step of the Demo28 layer, statement by statement.                 *)
(*                                                                         *)
(* pc28 is the position of the running call: the phase ("forward": inside  *)
(* self.forward, "update": inside the update loops, "add": inside an add   *)
(* call, "idle": no call is running), the output and input it has reached, *)
(* the locals sum_qnum, output and error.a, and for an add call the cell   *)
(* self, the operand other and the phase the call returns to.  Each level  *)
(* of the recursion self.left.add(carry) is a step of its own.             *)
(***************************************************************************)
\* One level of self.add(other): the arena after the six fields are stored
\* and, when there is no left cell, the carry is linked; next is the cell
\* the call recurses into (None: the call returns) with carry as operand.
addLevel(h, p, y) ==
    LET val   == [fld \in Fields |-> h[p][fld] + y[fld]]
        carry == [fld \in Fields |-> AddCarry(val[fld])]
        carry_flag == \E fld \in Fields : AddOverflows(val[fld])
        h1 == [h EXCEPT ![p] =
                 [h[p] EXCEPT !.a = AddRetained(val.a), !.b = AddRetained(val.b),
                              !.c = AddRetained(val.c), !.d = AddRetained(val.d),
                              !.e = AddRetained(val.e), !.f = AddRetained(val.f)]]
    IN  IF ~carry_flag
        THEN [heap |-> h1, next |-> None, carry |-> NewCell]
        ELSE IF h1[p].left # None
        THEN [heap |-> h1, next |-> h1[p].left, carry |-> CellOf(carry)]
        ELSE [heap |-> Append([h1 EXCEPT ![p].left = Len(h1) + 1],
                              CellOf(carry)),
              next |-> None, carry |-> NewCell]

\* train_step is entered: self.forward starts with its first output.
EnterPos ==
    [IdlePos EXCEPT !.phase = "forward", !.n = 1, !.m = 0]

\* A position from which nothing runs on: the call neither continues nor
\* returns.
SuspendedPos == [IdlePos EXCEPT !.phase = "suspended"]

\* train_step has returned or raised: no call is running.
ReturnPos == IdlePos

\* layer.train_step(input_vector, target_vector, learning_rate) is called.
CallTrainStep28(input_vector, target_vector, learning_rate) ==
    /\ pc28.phase = "idle"
    /\ n28 < MaxLayer28Ops
    /\ call28' = [NoCall28 EXCEPT
                     !.op = "train_step", !.input = input_vector,
                     !.target = target_vector,
                     !.learning_rate = learning_rate,
                     !.heap = heap28, !.layer = layer28, !.out = out28,
                     !.prev = [op |-> call28.op, input |-> call28.input]]
    /\ pc28' = EnterPos
    /\ n28' = n28 + 1
    /\ UNCHANGED <<heap28, layer28, out28, notLayer28>>

\* One statement of self.forward(input_vector): the fresh sum_qnum (m = 0),
\* the call sum_qnum.add(tmp) for the m-th input, the call
\* sum_qnum.add(self.biases[o]), output[o] = sum_qnum, or the return.
ForwardStep28 ==
    /\ pc28.phase = "forward"
    /\ LET ni == Len(layer28.inputs)
           o == layer28.outputs[pc28.n]
           i == layer28.inputs[pc28.m]
           s == SumCell(heap28, layer28, o)
       IN  IF pc28.n > Len(layer28.outputs)
           THEN /\ pc28' = [pc28 EXCEPT !.phase = "update", !.n = 1, !.m = 0]
                /\ heap28' = heap28
           ELSE IF pc28.m = 0
           THEN /\ pc28' = [pc28 EXCEPT !.sum = s.at, !.m = 1]
                /\ heap28' = s.heap
           ELSE IF pc28.m <= ni
           THEN /\ pc28' = [pc28 EXCEPT
                               !.phase = "add", !.back = "forward",
                               !.p = pc28.sum,
                               !.y = ScaledCopy(heap28[layer28.weights[o][i]],
                                                Get(call28.input, i, 0)),
                               !.m = @ + 1]
                /\ heap28' = heap28
           ELSE IF pc28.m = ni + 1
           THEN /\ pc28' = [pc28 EXCEPT
                               !.phase = "add", !.back = "forward",
                               !.p = pc28.sum,
                               !.y = heap28[layer28.biases[o]],
                               !.m = @ + 1]
                /\ heap28' = heap28
           ELSE /\ pc28' = [pc28 EXCEPT
                               !.output = SetItem(@, o, pc28.sum),
                               !.sum = None, !.n = @ + 1, !.m = 0]
                /\ heap28' = heap28
    /\ UNCHANGED <<layer28, out28, call28, n28, notLayer28>>

\* One level of the running add call: it recurses into self.left with the
\* carry, or it returns to the loop that called it.
AddStep28 ==
    /\ pc28.phase = "add"
    /\ LET r == addLevel(heap28, pc28.p, pc28.y)
       IN  /\ heap28' = r.heap
           /\ pc28' = IF r.next = None
                      THEN [pc28 EXCEPT !.phase = pc28.back, !.back = "idle",
                                        !.p = None, !.y = NewCell]
                      ELSE [pc28 EXCEPT !.p = r.next, !.y = r.carry]
    /\ UNCHANGED <<layer28, out28, call28, n28, notLayer28>>

\* The end of the call: it returns or raises.  The cells no reference
\* reaches any more (the sum, tmp and delta cells of the call) stay in the
\* arena of the stepwise runs as garbage.
Return28(raised) ==
    /\ call28' = [call28 EXCEPT !.raised = raised]
    /\ pc28' = ReturnPos
    /\ UNCHANGED <<heap28, layer28, out28>>

\* One statement of the update loops: error.a for the n-th output (m = 0;
\* a target without the key raises), the call self.weights[o][i].add(delta)
\* for the m-th input, the call self.biases[o].add(bias_delta), or the
\* return.
UpdateStep28 ==
    /\ pc28.phase = "update"
    /\ LET ni == Len(layer28.inputs)
           o == layer28.outputs[pc28.n]
           i == layer28.inputs[pc28.m]
           rate == call28.learning_rate
       IN  IF pc28.n > Len(layer28.outputs)
           THEN Return28("None")
           ELSE IF pc28.m = 0 /\ o \notin DOMAIN call28.target
           THEN Return28("KeyError")
           ELSE /\ pc28' =
                     IF pc28.m = 0
                     THEN [pc28 EXCEPT
                              !.error = call28.target[o]
                                        - heap28[pc28.output[o]].a,
                              !.m = 1]
                     ELSE IF pc28.m <= ni
                     THEN [pc28 EXCEPT
                              !.phase = "add", !.back = "update",
                              !.p = layer28.weights[o][i],
                              !.y = DeltaCell(pc28.error
                                              * Get(call28.input, i, 0) * rate),
                              !.m = @ + 1]
                     ELSE [pc28 EXCEPT
                              !.phase = "add", !.back = "update",
                              !.p = layer28.biases[o],
                              !.y = DeltaCell(pc28.error * rate),
                              !.n = @ + 1, !.m = 0]
                /\ UNCHANGED <<heap28, layer28, out28, call28>>
    /\ UNCHANGED <<n28, notLayer28>>

\* Training pairs of the stepwise runs: one of the training data, a pair
\* whose inputs add up beyond the carry threshold and whose error makes a
\* weight overflow, and a target without the key y.
PipelineSamples28 ==
    { <<[a |-> 1, b |-> 2, c |-> 3], [x |-> 5, y |-> 4]>>,
      <<[a |-> 7, b |-> 8, c |-> 9], [x |-> 9, y |-> 5]>>,
      <<[a |-> 1, b |-> 2, c |-> 3], [x |-> 5]>> }

\* The statements of a running call.
StepPipeline28 == ForwardStep28 \/ AddStep28 \/ UpdateStep28

NextPipeline28 ==
    \/ \E s \in PipelineSamples28, learning_rate \in Rates28 :
          CallTrainStep28(s[1], s[2], learning_rate)
    \/ StepPipeline28

(***************************************************************************)
(* QuantumNumber and QuantumNumberLayer of Demo24: a weight is a sign and  *)
(* a list of digits, least significant first.                              *)
(*                                                                         *)
(* A learning rate is the fraction num / den; the integer rate n is n / 1. *)
(* The rates of the model have a power of two as denominator, for which    *)
(* the float product error * input * learning_rate is exact.               *)
(***************************************************************************)
\* The while loop of _normalize: trailing zero digits are popped as long as
\* more than one digit is left.
RECURSIVE PopZeros(_)
PopZeros(digits) ==
    IF Len(digits) > 1 /\ digits[Len(digits)] = 0
    THEN PopZeros(SubSeq(digits, 1, Len(digits) - 1))
    ELSE digits

\* self._normalize().
normalize24(q) ==
    LET digits == PopZeros(q.digits)
    IN  [q EXCEPT !.digits = digits,
                  !.sign = IF digits = <<0>> THEN 1 ELSE @]

\* QuantumNumber(digits, base, sign) with a digit list given.
QuantumNumber(digits, base, sign) ==
    normalize24([digits |-> digits, base |-> base, sign |-> sign])

\* The loop of to_int from digit i down to the first one.
RECURSIVE Horner(_, _, _)
Horner(q, i, val) ==
    IF i = 0 THEN val ELSE Horner(q, i - 1, val * q.base + q.digits[i])

\* self.to_int().
to_int(q) == Horner(q, Len(q.digits), 0) * q.sign

\* abs(new_val).
Abs(v) == IF v >= 0 THEN v ELSE -v

\* A variant of DigitsOf that keeps the lowest digit only and drops what
\* should carry into the higher ones.
DigitsOfLowest(abs_val, base) ==
    IF abs_val > 0 THEN <<abs_val % base>> ELSE <<>>

\* The while loop of add: the digits of abs_val, least significant first.
RECURSIVE DigitsOf(_, _)
DigitsOf(abs_val, base) ==
    IF abs_val > 0
    THEN <<abs_val % base>> \o DigitsOf(abs_val \div base, base)
    ELSE <<>>

\* self.add(value).
add24(q, value) ==
    IF value = 0 THEN q
    ELSE LET new_val == to_int(q) + value
         IN  IF Abs(new_val) = 0
             THEN normalize24([q EXCEPT !.digits = <<0>>, !.sign = 1])
             ELSE normalize24(
                      [q EXCEPT !.digits = DigitsOf(Abs(new_val), q.base),
                                !.sign = IF new_val >= 0 THEN 1 ELSE -1])

\* QuantumNumberLayer(input_keys, output_keys, base): every weight and bias
\* is QuantumNumber([0], base).
QuantumNumberLayer24(input_keys, output_keys, base) ==
    [base |-> base, input_keys |-> input_keys, output_keys |-> output_keys,
     weights |-> [o \in Range(output_keys) |-> [i \in Range(input_keys) |->
                     QuantumNumber(<<0>>, base, 1)]],
     biases |-> [o \in Range(output_keys) |-> QuantumNumber(<<0>>, base, 1)]]

\* The inner loop of forward from the m-th input key on.
RECURSIVE Total24(_, _, _, _, _)
Total24(layer, o, inp, m, total) ==
    IF m > Len(layer.input_keys) THEN total
    ELSE Total24(layer, o, inp, m + 1,
                 total + to_int(layer.weights[o][layer.input_keys[m]])
                         * Get(inp, layer.input_keys[m], 0))

\* layer.forward(inp): per output key a QuantumNumber([], base) to which the
\* total is added.
forward24(layer, inp) ==
    [o \in Range(layer.output_keys) |->
        add24(QuantumNumber(<<>>, layer.base, 1),
              Total24(layer, o, inp, 1, to_int(layer.biases[o])))]

\* A variant of IntOf that rounds a fraction away from zero.
IntOfAwayFromZero(n, den) ==
    IF n >= 0 THEN (n + den - 1) \div den ELSE -((-n + den - 1) \div den)

\* int(x) for x = n / den: the fraction is cut towards zero.
IntOf(n, den) == IF n >= 0 THEN n \div den ELSE -((-n) \div den)

\* An error taken against an output of zero, whatever forward returned.
ErrorOfTargetOnly(target_o, output_o) == target_o

\* error = target[o] - output[o].to_int().
ErrorOf(target_o, output_o) == target_o - to_int(output_o)

\* The weight loop of train_step for output key o, from the m-th input key
\* on.
RECURSIVE UpdateWeights24(_, _, _, _, _, _)
UpdateWeights24(layer, o, error, inp, learning_rate, m) ==
    IF m > Len(layer.input_keys) THEN layer
    ELSE LET i == layer.input_keys[m]
             delta == IntOf(error * Get(inp, i, 0) * learning_rate.num,
                            learning_rate.den)
             layer1 == IF delta # 0
                       THEN [layer EXCEPT !.weights[o][i] = add24(@, delta)]
                       ELSE layer
         IN  Eager(layer1, UpdateWeights24(layer1, o, error, inp,
                                           learning_rate, m + 1))

\* The output loop of train_step from the n-th output key on; a target
\* without the key raises with the updates made until then.
RECURSIVE TrainOutputs24(_, _, _, _, _, _)
TrainOutputs24(layer, output, inp, target, learning_rate, n) ==
    IF n > Len(layer.output_keys) THEN [raised |-> "None", layer |-> layer]
    ELSE LET o == layer.output_keys[n]
             error == ErrorOf(target[o], output[o])
             layer1 == UpdateWeights24(layer, o, error, inp, learning_rate, 1)
             delta_bias == IntOf(error * learning_rate.num, learning_rate.den)
             layer2 == IF delta_bias # 0
                       THEN [layer1 EXCEPT !.biases[o] = add24(@, delta_bias)]
                       ELSE layer1
         IN  IF o \notin DOMAIN target
             THEN [raised |-> "KeyError", layer |-> layer]
             ELSE Eager(layer2, TrainOutputs24(layer2, output, inp, target,
                                               learning_rate, n + 1))

\* layer.train_step(inp, target, learning_rate): forward, the print of the
\* first two output keys, then the update loops.
train_step24(layer, inp, target, learning_rate) ==
    LET output == forward24(layer, inp)
    IN  IF Len(layer.output_keys) < 2
        THEN [raised |-> "IndexError", layer |-> layer]
        ELSE Eager(output, TrainOutputs24(layer, output, inp, target,
                                          learning_rate, 1))

(***************************************************************************)
(* The Demo24 script: one layer trained on samples.                        *)
(***************************************************************************)
\* base=10 of demo24.
Base24 == 10

\* Training pairs: the training data, an input without the key b, and a
\* target without the key y.
Samples24 ==
    { <<[a |-> 1, b |-> 2, c |-> 3], [x |-> 5, y |-> 4]>>,
      <<[a |-> 3, b |-> 1, c |-> 0], [x |-> 6, y |-> 2]>>,
      <<[a |-> 0, b |-> 0, c |-> 4], [x |-> 3, y |-> 3]>>,
      <<[a |-> 1, c |-> 3], [x |-> 5, y |-> 4]>>,
      <<[a |-> 1, b |-> 2, c |-> 3], [x |-> 5]>> }

\* Input vectors of forward calls: those of the training pairs.
Inputs24 == {s[1] : s \in Samples24}

\* Learning rates: the 1 of demo24, and 1/2.
Rates24 == { [num |-> 1, den |-> 1], [num |-> 1, den |-> 2] }

NoCall24 ==
    [op |-> "none", inp |-> EmptyDict, target |-> EmptyDict,
     learning_rate |-> [num |-> 0, den |-> 1], layer |-> EmptyDict,
     raised |-> "None"]

Layer24Idle ==
    /\ layer24 = EmptyDict
    /\ out24 = EmptyDict
    /\ call24 = NoCall24
    /\ n24 = 0
    /\ rate24 = [num |-> 0, den |-> 1]

\* layer = QuantumNumberLayer(input_keys, output_keys, base=10), with the
\* keys of demo24.
Layer24Init ==
    /\ layer24 = QuantumNumberLayer24(<<"a", "b", "c">>, <<"x", "y">>, Base24)
    /\ out24 = EmptyDict
    /\ call24 = NoCall24
    /\ n24 = 0
    /\ rate24 = [num |-> 0, den |-> 1]

\* out = layer.forward(inp).
Forward24(inp) ==
    /\ n24 < MaxLayer24Ops
    /\ out24' = forward24(layer24, inp)
    /\ call24' = [NoCall24 EXCEPT !.op = "forward", !.inp = inp,
                                  !.layer = layer24]
    /\ n24' = n24 + 1
    /\ UNCHANGED <<layer24, rate24, notLayer24>>

\* layer.train_step(inp, target, learning_rate).
TrainStep24(inp, target, learning_rate) ==
    /\ n24 < MaxLayer24Ops
    /\ LET r == train_step24(layer24, inp, target, learning_rate)
       IN  /\ layer24' = r.layer
           /\ call24' = [NoCall24 EXCEPT
                            !.op = "train_step", !.inp = inp,
                            !.target = target,
                            !.learning_rate = learning_rate,
                            !.layer = layer24, !.raised = r.raised]
    /\ n24' = n24 + 1
    /\ UNCHANGED <<out24, rate24, notLayer24>>

NextLayer24 ==
    \/ \E inp \in Inputs24 : Forward24(inp)
    \/ \E s \in Samples24, learning_rate \in Rates24 :
          TrainStep24(s[1], s[2], learning_rate)

(***************************************************************************)
(* The scalar example: input 2, target 10, weight 1, bias 0, trained       *)
(* repeatedly at one learning rate.  train_step prints the first two       *)
(* output keys, so the example layer has two output keys, both trained to  *)
(* the target.                                                             *)
(***************************************************************************)
ExampleInput == [a |-> 2]
ExampleTarget == [x |-> 10, y |-> 10]

\* The denominator of the example's learning rates, and their numerators:
\* the rates 1/16, 2/16, ... up to 20/16; 16/16 is the rate 1.
RateDen == 16
RateNums == 1..20

\* The example layer: constructed, then weights[o]['a'].add(1) for every
\* output key; the biases stay 0.
ExampleLayer ==
    LET layer == QuantumNumberLayer24(<<"a">>, <<"x", "y">>, Base24)
    IN  [layer EXCEPT !.weights =
            [o \in DOMAIN @ |-> [i \in DOMAIN @[o] |-> add24(@[o][i], 1)]]]

ExampleInit ==
    /\ layer24 = ExampleLayer
    /\ out24 = EmptyDict
    /\ call24 = NoCall24
    /\ n24 = 0
    /\ rate24 \in {[num |-> k, den |-> RateDen] : k \in RateNums}

\* layer.train_step({'a': 2}, {'x': 10, 'y': 10}, learning_rate) at the
\* rate of the run.
TrainExample24 ==
    /\ n24 < MaxSteps24
    /\ LET r == train_step24(layer24, ExampleInput, ExampleTarget, rate24)
       IN  /\ layer24' = r.layer
           /\ call24' = [NoCall24 EXCEPT
                            !.op = "train_step", !.inp = ExampleInput,
                            !.target = ExampleTarget,
                            !.learning_rate = rate24,
                            !.layer = layer24, !.raised = r.raised]
    /\ n24' = n24 + 1
    /\ UNCHANGED <<out24, rate24, notLayer24>>

NextExample24 == TrainExample24

(***************************************************************************)
(* The specifications.                                                     *)
(***************************************************************************)
InitCarry == CarryInit /\ SignsIdle /\ Demo7Idle /\ MeshIdle /\ Layer23Idle
    /\ Layer28Idle /\ Layer24Idle
SpecCarry == InitCarry /\ [][NextCarry]_vars

SpecChained == InitCarry /\ [][NextChained]_vars

InitSigns == SignsInit /\ CarryInit /\ Demo7Idle /\ MeshIdle /\ Layer23Idle
    /\ Layer28Idle /\ Layer24Idle
SpecSigns == InitSigns /\ [][NextSigns]_vars

InitDemo7 == Demo7Init /\ CarryInit /\ SignsIdle /\ MeshIdle /\ Layer23Idle
    /\ Layer28Idle /\ Layer24Idle
SpecDemo7 == InitDemo7 /\ [][NextDemo7]_vars

InitMesh == MeshInit /\ CarryInit /\ SignsIdle /\ Demo7Idle /\ Layer23Idle
    /\ Layer28Idle /\ Layer24Idle
SpecMesh == InitMesh /\ [][NextMesh]_vars

InitLayer23 ==
    Layer23Init /\ CarryInit /\ SignsIdle /\ Demo7Idle /\ MeshIdle
    /\ Layer28Idle /\ Layer24Idle
SpecLayer23 == InitLayer23 /\ [][NextLayer23]_vars

InitPeers23 ==
    Peers23Init /\ CarryInit /\ SignsIdle /\ Demo7Idle /\ MeshIdle
    /\ Layer28Idle /\ Layer24Idle
SpecPeers23 == InitPeers23 /\ [][NextPeers23]_vars

InitLayer28 ==
    Layer28Init /\ CarryInit /\ SignsIdle /\ Demo7Idle /\ MeshIdle
    /\ Layer23Idle /\ Layer24Idle
SpecLayer28 == InitLayer28 /\ [][NextLayer28]_vars

\* The interpreter runs the one thread of the script on: a statement of a
\* running call that can execute does execute.
SpecPipeline28 ==
    InitLayer28 /\ [][NextPipeline28]_vars /\ WF_vars(StepPipeline28)

InitLayer24 ==
    Layer24Init /\ CarryInit /\ SignsIdle /\ Demo7Idle /\ MeshIdle
    /\ Layer23Idle /\ Layer28Idle
SpecLayer24 == InitLayer24 /\ [][NextLayer24]_vars

InitExample24 ==
    ExampleInit /\ CarryInit /\ SignsIdle /\ Demo7Idle /\ MeshIdle
    /\ Layer23Idle /\ Layer28Idle
SpecExample24 == InitExample24 /\ [][NextExample24]_vars

(***************************************************************************)
(* Claims about add and scale_by_int (Demo28), checked under SpecCarry.    *)
(***************************************************************************)
\* Per field: what the last operation pushed into x.left, measured as the
\* change of the value the left chain of x stands for.
PushedIntoLeft(fld) ==
    ChainValue(heap, heap[X].left, fld) - ChainValue(cpre, cpre[X].left, fld)

\* C1: carry overflow is never dropped by add.  Over every run of add calls
\* with chain-free operands, for each of the six fields the mixed-radix value
\* reconstructed along the left chain of x equals the value the run started
\* from plus the sum of the operands' fields (so each single add changes it
\* by exactly the operand's field); and x.a = 6, y.a = 7 on a chain-free x
\* gives x.a = 3 and x.left.a = 1, which reconstructs to 13.
C1_CarryNeverDropped ==
    /\ ChainValues(heap, X) = acc
    /\ cop.name = "add" =>
          \A fld \in Fields :
             ChainValue(heap, X, fld) = ChainValue(cpre, X, fld) + cop.y[fld]
    /\ (cop.name = "add" /\ cpre[X].a = 6 /\ cpre[X].left = None /\ cop.y.a = 7) =>
          /\ heap[X].a = 3
          /\ heap[X].left # None
          /\ heap[heap[X].left].a = 1
          /\ ChainValue(heap, X, "a") = 13

\* C1 witness: the carry example has just run (6 + 7 on a chain-free x).
C1_Witness ==
    /\ cop.name = "add" /\ cpre[X].a = 6 /\ cpre[X].left = None /\ cop.y.a = 7
    /\ heap[X].a = 3 /\ heap[heap[X].left].a = 1

\* C2 (as the claim states it): after add(x, y), for every field the value
\* retained in x is sum mod base and the overflow pushed into x.left is
\* floor(sum / base), with sum = x.field + y.field; a carry cell is linked
\* exactly when some field's overflow is nonzero.
C2_AddMixedRadixPolicy ==
    cop.name = "add" =>
        /\ \A fld \in Fields :
              LET sum == cpre[X][fld] + cop.y[fld]
              IN  /\ heap[X][fld] = sum % Radix
                  /\ PushedIntoLeft(fld) = sum \div Radix
        /\ cpre[X].left = None =>
              (heap[X].left # None <=>
                 \E fld \in Fields : (cpre[X][fld] + cop.y[fld]) \div Radix # 0)

\* C3 (as the claim states it): after scale_by_int(x, s), for every field
\* the value retained in x is prod mod base and the overflow added into
\* x.left is floor(prod / base), with prod = x.field * s.
C3_ScaleMixedRadixPolicy ==
    cop.name = "scale_by_int" =>
        \A fld \in Fields :
           LET prod == cpre[X][fld] * cop.scalar
           IN  /\ heap[X][fld] = prod % Radix
               /\ PushedIntoLeft(fld) = prod \div Radix

\* Every field of a cell is below base/2.
BelowHalfBase(v) == \A fld \in Fields : 2 * v[fld] < Radix

\* C4: no-overflow add.  When all six fields of x and of y are below base/2
\* and x has no left link, add(x, y) leaves every field of x below base and
\* x.left stays absent.
C4_NoOverflowAdd ==
    (cop.name = "add" /\ cpre[X].left = None
        /\ BelowHalfBase(cpre[X]) /\ BelowHalfBase(cop.y)) =>
        /\ \A fld \in Fields : heap[X][fld] < Radix
        /\ heap[X].left = None

\* C4 witness: 4 + 4 in field a, every field of both cells below base/2.
C4_Witness ==
    /\ cop.name = "add" /\ cpre[X].left = None
    /\ BelowHalfBase(cpre[X]) /\ BelowHalfBase(cop.y)
    /\ cpre[X].a = 4 /\ cop.y.a = 4 /\ heap[X].a = 8

\* C5 (as the claim states it): scale_by_int(x, 1) leaves the six fields of
\* x and its left chain unchanged, for every reachable x.
C5_ScalarIdentity ==
    (cop.name = "scale_by_int" /\ cop.scalar = 1) => heap = cpre

(***************************************************************************)
(* Claims about the sign bitfield (Demo4, Demo5), checked under SpecSigns. *)
(***************************************************************************)
\* The last call and the one before it.
LastCall == slog[Len(slog)]
CallBefore == slog[Len(slog) - 1]

IsToggle(call) == call.name \in {"toggle_sign", "toggle_sign_bit"}

\* C6: toggle_sign(i) (Demo4) and toggle_sign_bit(i) (Demo5), i in 0..5,
\* flip exactly bit i of signs and leave the other five bits, the six
\* coefficients and metadata unchanged; two toggles of the same bit in a
\* row restore the cell exactly.
C6_DoubleToggleIdentity ==
    /\ (Len(slog) >= 1 /\ IsToggle(LastCall)) =>
          /\ \A i \in TermIndices :
                SignBit(qnum.signs, i) =
                    IF i = LastCall.arg THEN 1 - SignBit(LastCall.pre.signs, i)
                    ELSE SignBit(LastCall.pre.signs, i)
          /\ qnum.signs \in 0 .. 63
          /\ qnum = [LastCall.pre EXCEPT !.signs = qnum.signs]
    /\ (Len(slog) >= 2 /\ IsToggle(LastCall) /\ IsToggle(CallBefore)
           /\ LastCall.arg = CallBefore.arg) =>
          qnum = CallBefore.pre

\* C6 witness: bit 3 was toggled twice in a row, starting with other bits set.
C6_Witness ==
    /\ Len(slog) >= 3
    /\ IsToggle(LastCall) /\ IsToggle(CallBefore)
    /\ LastCall.arg = 3 /\ CallBefore.arg = 3
    /\ CallBefore.pre.signs # 0
    /\ qnum = CallBefore.pre

\* C7: multiply_by(k) with k < 0 toggles exactly sign bits 0 and 3,
\* divide_by(k) with k < 0 toggles exactly sign bits 1 and 4, and with k >= 0
\* neither changes signs.  Hence over every run of multiply_by / divide_by
\* calls bits 2 and 5 keep the value they had when the run started, and
\* bits 0 and 3 (likewise 1 and 4) differ exactly when they differed then.
C7_NegativeFactorSigns ==
    /\ (Len(slog) >= 1 /\ LastCall.name = "multiply_by") =>
          \A i \in TermIndices :
             SignBit(qnum.signs, i) =
                 IF LastCall.arg < 0 /\ i \in {0, 3}
                 THEN 1 - SignBit(LastCall.pre.signs, i)
                 ELSE SignBit(LastCall.pre.signs, i)
    /\ (Len(slog) >= 1 /\ LastCall.name = "divide_by") =>
          \A i \in TermIndices :
             SignBit(qnum.signs, i) =
                 IF LastCall.arg < 0 /\ i \in {1, 4}
                 THEN 1 - SignBit(LastCall.pre.signs, i)
                 ELSE SignBit(LastCall.pre.signs, i)
    /\ qnum.signs \in 0 .. 63
    /\ SignBit(qnum.signs, 2) = SignBit(sbase, 2)
    /\ SignBit(qnum.signs, 5) = SignBit(sbase, 5)
    /\ (SignBit(qnum.signs, 0) = SignBit(qnum.signs, 3))
          <=> (SignBit(sbase, 0) = SignBit(sbase, 3))
    /\ (SignBit(qnum.signs, 1) = SignBit(qnum.signs, 4))
          <=> (SignBit(sbase, 1) = SignBit(sbase, 4))

\* C7 witness: after bit 3 was toggled alone, a negative factor and then a
\* negative divisor were applied.
C7_Witness ==
    /\ Len(slog) >= 3
    /\ LastCall.name = "divide_by" /\ LastCall.arg < 0
    /\ CallBefore.name = "multiply_by" /\ CallBefore.arg < 0
    /\ SignBit(sbase, 0) # SignBit(sbase, 3)
    /\ SignBit(qnum.signs, 1) = 1 /\ SignBit(qnum.signs, 4) = 1

(***************************************************************************)
(* Claims about Demo7, checked under SpecDemo7.                            *)
(***************************************************************************)
LastCall7 == log7[Len(log7)]

\* C8: relu_activation(q).  If sign bit 0 was set, afterwards coefficient a
\* is 0, sign bit 0 is clear and metadata has grown by 1; if it was clear
\* the cell is unchanged; either way b..f and sign bits 1..5 are unchanged
\* and sign bit 0 is clear afterwards.
C8_Relu ==
    (Len(log7) >= 1 /\ LastCall7.name = "relu_activation") =>
        LET pre == LastCall7.pre
        IN  /\ SignBit(pre.signs, 0) = 1 =>
                  /\ q7.a = 0
                  /\ SignBit(q7.signs, 0) = 0
                  /\ q7.metadata = pre.metadata + 1
            /\ SignBit(pre.signs, 0) = 0 => q7 = pre
            /\ \A fld \in Fields \ {"a"} : q7[fld] = pre[fld]
            /\ \A i \in 1 .. 5 : SignBit(q7.signs, i) = SignBit(pre.signs, i)
            /\ q7.signs \in 0 .. 63
            /\ SignBit(q7.signs, 0) = 0

\* C8 witness: relu ran on a cell with a negative, nonzero a and another
\* sign bit set.
C8_Witness ==
    /\ Len(log7) >= 1 /\ LastCall7.name = "relu_activation"
    /\ SignBit(LastCall7.pre.signs, 0) = 1 /\ LastCall7.pre.a # 0
    /\ SignBit(LastCall7.pre.signs, 3) = 1
    /\ q7.a = 0 /\ q7.signs = 8

\* C9 (as the claim states it): every transformation applied to a cell
\* (multiply, divide, relu, add, scale_by_int) strictly increases the cell's
\* metadata, and metadata is never negative.
C9_MetadataStrictlyIncreases ==
    /\ Len(log7) >= 1 => q7.metadata > LastCall7.pre.metadata
    /\ cop.name \in {"add", "scale_by_int"} =>
          heap[X].metadata > cpre[X].metadata
    /\ q7.metadata >= 0
    /\ heap[X].metadata >= 0

(***************************************************************************)
(* Claims about the Demo17 pool, checked under SpecMesh.                   *)
(***************************************************************************)
\* The coefficient fld of the cell behind pointer dir of cell c, 0 when the
\* pointer is None.
NeighborCoef(c, dir, fld) ==
    IF mesh[c][dir] = None THEN 0 ELSE mesh[mesh[c][dir]][fld]

\* C10: weighted_sum_neighbors(cell) returns a new cell whose every
\* coefficient a..f is the cell's own plus that of each present neighbor
\* among up, down, left, right; cells linked through in_ and out add
\* nothing, and the result carries no link of its own.
C10_WeightedSumNeighbors ==
    wres.cell # 0 =>
        /\ \A fld \in Fields :
              wres.result[fld] =
                  mesh[wres.cell][fld]
                  + NeighborCoef(wres.cell, "up", fld)
                  + NeighborCoef(wres.cell, "down", fld)
                  + NeighborCoef(wres.cell, "left", fld)
                  + NeighborCoef(wres.cell, "right", fld)
        /\ \A dir \in {"up", "down", "left", "right", "in_", "out"} :
              wres.result[dir] = None

\* C10 witness: the centre node, with its four neighbours and an in_ link
\* to a cell with nonzero coefficients, was aggregated: 5 + 2 + 8 + 4 + 6.
C10_Witness ==
    /\ wres.cell = 5
    /\ mesh[5].in_ # None /\ mesh[mesh[5].in_].a # 0
    /\ mesh[5].e # 0
    /\ wres.result.a = 25

\* The cell at address c has no spatial neighbour: up, down, left and right
\* are all None.
Isolated(c) ==
    \A dir \in {"up", "down", "left", "right"} : mesh[c][dir] = None

\* C11: for every cell whose up, down, left and right are all absent,
\* weighted_sum_neighbors(cell) returns a cell equal to the input in all six
\* coefficients, in signs and in metadata.
C11_IsolatedAggregation ==
    (wres.cell # 0 /\ Isolated(wres.cell)) =>
        /\ \A fld \in Fields : wres.result[fld] = mesh[wres.cell][fld]
        /\ wres.result.signs = mesh[wres.cell].signs
        /\ wres.result.metadata = mesh[wres.cell].metadata

\* C11 witness: the weight cell, which has no spatial neighbour but carries
\* nonzero signs and metadata and a reserved link, was aggregated.
C11_Witness ==
    /\ wres.cell = WeightCell
    /\ Isolated(WeightCell)
    /\ mesh[WeightCell].signs # 0 /\ mesh[WeightCell].metadata # 0
    /\ mesh[WeightCell].in_ # None
    /\ wres.result.signs = mesh[WeightCell].signs

(***************************************************************************)
(* Claims about the Demo23 layer, checked under SpecLayer23.               *)
(***************************************************************************)
\* Two dicts with the same keys and the same value under each key.
DictEq(d1, d2) == DOMAIN d1 = DOMAIN d2 /\ \A k \in DOMAIN d1 : d1[k] = d2[k]

\* bias[out_k] plus the sum over the input keys from the n-th on of
\* weight[out_k][in_k] * input[in_k], with the weights and biases the last
\* call found.
RECURSIVE AffineSum23(_, _)
AffineSum23(out_k, n) ==
    IF n > Len(layer23.input_keys) THEN call23.biases[out_k]
    ELSE call23.weights[out_k][layer23.input_keys[n]]
             * call23.input[layer23.input_keys[n]]
         + AffineSum23(out_k, n + 1)

\* target[k] - output[k] of the last backward call, per output key.
Errors23 ==
    [k \in KeySet(layer23.output_keys) |->
        call23.target[k] - call23.output[k]]

\* C12: forward, given an input with every input key, returns for every
\* output key (bias + sum of weight * input) mod base[out] when a base is
\* configured for the key, and the unreduced sum when none is configured.
C12_ForwardAffineMap ==
    (/\ call23.op = "forward"
     /\ KeySet(layer23.input_keys) \subseteq DOMAIN call23.input) =>
        /\ call23.raised = "None"
        /\ \A out_k \in KeySet(layer23.output_keys) :
              /\ out_k \in DOMAIN call23.value
              /\ call23.value[out_k] =
                    IF out_k \in DOMAIN layer23.bases
                    THEN PyMod(AffineSum23(out_k, 1), layer23.bases[out_k])
                    ELSE AffineSum23(out_k, 1)

\* C14: a backward call that returns makes the mapping of errors
\* target[out] - output[out], one entry per output key, available: it is
\* the value returned or it is stored as the layer's errors.
C14_ErrorsAvailable ==
    (call23.op = "backward" /\ call23.raised = "None") =>
        \/ call23.returns = "dict" /\ DictEq(call23.value, Errors23)
        \/ "errors" \in DOMAIN layer23 /\ DictEq(layer23.errors, Errors23)

\* C15: after a backward call that returns, every weight[out][in] is its old
\* value plus learning_rate * (target[out] - output[out]) * input[in], every
\* bias[out] its old value plus learning_rate * (target[out] - output[out]),
\* all of them integers, and nothing else of the layer has changed.
C15_UpdateRule ==
    (call23.op = "backward" /\ call23.raised = "None") =>
        /\ DOMAIN w23 = DOMAIN call23.weights
        /\ \A out_k \in KeySet(layer23.output_keys) :
              /\ DOMAIN w23[out_k] = DOMAIN call23.weights[out_k]
              /\ \A in_k \in KeySet(layer23.input_keys) :
                    /\ w23[out_k][in_k] =
                          call23.weights[out_k][in_k]
                          + call23.learning_rate * Errors23[out_k]
                            * call23.input[in_k]
                    /\ w23[out_k][in_k] \in Int
              /\ layer23.biases[out_k] =
                    call23.biases[out_k]
                    + call23.learning_rate * Errors23[out_k]
              /\ layer23.biases[out_k] \in Int
        /\ DOMAIN layer23.biases = KeySet(layer23.output_keys)
        /\ layer23.input_keys = <<"a", "b", "c">>
        /\ layer23.output_keys = <<"x", "y">>
        /\ layer23.bases \in Bases23

\* C15 witness: a backward call with learning rate 2 returned after moving
\* a weight by a step in which error and input are both nonzero.
C15_Witness ==
    /\ call23.op = "backward" /\ call23.raised = "None"
    /\ call23.learning_rate = 2
    /\ Errors23["x"] # 0 /\ call23.input["b"] # 0
    /\ w23["x"]["b"] # call23.weights["x"]["b"]
    /\ w23["x"]["b"] =
          call23.weights["x"]["b"] + 2 * Errors23["x"] * call23.input["b"]

\* C20: when backward fails because input, target or output lacks a
\* configured key, every weight and every bias keeps the value it had
\* before the call.
C20_NoPartialMutation ==
    (call23.op = "backward" /\ call23.raised = "KeyError") =>
        /\ w23 = call23.weights
        /\ layer23.biases = call23.biases

(***************************************************************************)
(* Claims about the Demo28 layer, checked under SpecLayer28.               *)
(***************************************************************************)
\* The sum of the input components over the input keys from the m-th on.
RECURSIVE InputSum28(_, _)
InputSum28(input_vector, m) ==
    IF m > Len(layer28.inputs) THEN 0
    ELSE input_vector[layer28.inputs[m]] + InputSum28(input_vector, m + 1)

\* The last call found every weight at a = 1 with its other coefficients
\* zero and no chain, and every bias all zero without a chain.
UnitWeightsZeroBiases28 ==
    /\ \A n \in 1..Len(WeightRefs(call28.layer, 1)) :
          call28.heap[WeightRefs(call28.layer, 1)[n]] =
              [NewCell EXCEPT !.a = 1]
    /\ \A o \in DOMAIN call28.layer.biases :
          call28.heap[call28.layer.biases[o]] = NewCell

\* C13: forward on a layer whose every weight is a = 1 (no chain) and whose
\* every bias is 0, given a non-negative integer for every input key,
\* returns for every output key a cell whose field a, read along its left
\* chain as a mixed-radix number, is the sum of the inputs.
C13_ForwardSumsInputs ==
    (/\ call28.op = "forward"
     /\ UnitWeightsZeroBiases28
     /\ DOMAIN call28.input = Range(layer28.inputs)
     /\ \A i \in DOMAIN call28.input : call28.input[i] >= 0) =>
        \A o \in Range(layer28.outputs) :
            ChainValue(heap28, out28[o], "a") = InputSum28(call28.input, 1)

\* C19: forward and train_step fail with UnknownKey when the input lacks a
\* configured input key or holds a key that is not configured.
C19_UnknownKeyReported ==
    (/\ call28.op \in {"forward", "train_step"}
     /\ DOMAIN call28.input # Range(layer28.inputs)) =>
        call28.raised = "UnknownKey"

(***************************************************************************)
(* Claims about the Demo24 layer, checked under SpecLayer24 and            *)
(* SpecExample24.                                                          *)
(***************************************************************************)
\* bias[o] plus the sum over the input keys from the m-th on of
\* weight[o][i] * inp.get(i, 0), for the layer a call found.
RECURSIVE AffineSum24(_, _, _, _)
AffineSum24(layer, inp, o, m) ==
    IF m > Len(layer.input_keys) THEN to_int(layer.biases[o])
    ELSE to_int(layer.weights[o][layer.input_keys[m]])
             * Get(inp, layer.input_keys[m], 0)
         + AffineSum24(layer, inp, o, m + 1)

\* target[o] minus the output for o that the weights and biases the last
\* call found give on the call's input.
StartError24(o) ==
    call24.target[o] - AffineSum24(call24.layer, call24.inp, o, 1)

\* target[o] minus the output for o that the weights and biases give now.
EndError24(o) ==
    call24.target[o] - AffineSum24(layer24, call24.inp, o, 1)

\* C16: train_step runs forward, then computes the error, then updates:
\* every weight and bias ends as its value at the start of the step plus
\* the step computed from the error of the output that the weights at the
\* start of the step give on the input of the step.
C16_TrainStepOrder ==
    (call24.op = "train_step" /\ call24.raised = "None") =>
        \A o \in Range(layer24.output_keys) :
            /\ \A i \in Range(layer24.input_keys) :
                  to_int(layer24.weights[o][i]) =
                      to_int(call24.layer.weights[o][i])
                      + IntOf(StartError24(o) * Get(call24.inp, i, 0)
                                  * call24.learning_rate.num,
                              call24.learning_rate.den)
            /\ to_int(layer24.biases[o]) =
                  to_int(call24.layer.biases[o])
                  + IntOf(StartError24(o) * call24.learning_rate.num,
                          call24.learning_rate.den)

\* C16 witness: a train_step on weights that an earlier step had already
\* moved, with a nonzero error at its start, changed a weight.
C16_Witness ==
    /\ call24.op = "train_step" /\ call24.raised = "None"
    /\ n24 >= 2
    /\ to_int(call24.layer.weights["x"]["a"]) # 0
    /\ StartError24("x") # 0
    /\ to_int(layer24.weights["x"]["a"]) # to_int(call24.layer.weights["x"]["a"])

\* C17 as stated: at every learning rate with rate * input^2 < 2, each
\* train_step of the example leaves |target - output| no larger than it
\* was, and strictly smaller when it was nonzero.
C17_ConvergesBelowInputBound ==
    (/\ call24.op = "train_step"
     /\ rate24.num * ExampleInput["a"] * ExampleInput["a"] < 2 * rate24.den) =>
        /\ Abs(EndError24("x")) <= Abs(StartError24("x"))
        /\ StartError24("x") # 0 =>
              Abs(EndError24("x")) < Abs(StartError24("x"))

\* C17 amended: at every learning rate with rate * (input^2 + 1) < 2, each
\* train_step of the example leaves |target - output| no larger than it
\* was, and strictly smaller when the step changed the weight or the bias.
C17_ConvergesBelowUpdateBound ==
    (/\ call24.op = "train_step"
     /\ rate24.num * (ExampleInput["a"] * ExampleInput["a"] + 1)
            < 2 * rate24.den) =>
        /\ Abs(EndError24("x")) <= Abs(StartError24("x"))
        /\ (\/ layer24.weights["x"] # call24.layer.weights["x"]
            \/ layer24.biases["x"] # call24.layer.biases["x"]) =>
              Abs(EndError24("x")) < Abs(StartError24("x"))

\* C17 witness: at the rate 6/16 a step overshot the target and still left
\* a smaller error than it found.
C17_Witness ==
    /\ call24.op = "train_step"
    /\ rate24 = [num |-> 6, den |-> RateDen]
    /\ StartError24("x") > 0 /\ EndError24("x") < 0
    /\ Abs(EndError24("x")) < Abs(StartError24("x"))

\* C18: at the learning rate 1 every train_step of the example leaves
\* |target - output| strictly larger than it was, and never 0.
C18_DivergesAtRateOne ==
    (call24.op = "train_step" /\ rate24.num = rate24.den) =>
        /\ Abs(EndError24("x")) > Abs(StartError24("x"))
        /\ EndError24("x") # 0

\* C18 witness: the fourth step at the rate 1 took the error from -512 to
\* 2048.
C18_Witness ==
    /\ call24.op = "train_step"
    /\ rate24.num = rate24.den
    /\ n24 = 4
    /\ StartError24("x") = -512 /\ EndError24("x") = 2048

(***************************************************************************)
(* Claims about the bases of the Demo23 layer, checked under SpecLayer23.  *)
(***************************************************************************)
\* C21: a bases entry of 1 or less is refused when the layer is
\* constructed, so that no forward call ever returns a value from a layer
\* that holds such a base.
C21_InvalidBaseRefused ==
    (call23.op = "forward" /\ call23.raised = "None") =>
        \A k \in DOMAIN layer23.bases : layer23.bases[k] > 1

\* C30: forward returns, for every output key whose base is at least 1, a
\* value from 0 to base - 1, whatever the sign of the weights, the biases
\* and the total.
C30_OutputInRange ==
    (call23.op = "forward" /\ call23.raised = "None") =>
        \A out_k \in KeySet(layer23.output_keys) :
            layer23.bases[out_k] >= 1 =>
                /\ out_k \in DOMAIN call23.value
                /\ call23.value[out_k] \in 0..(layer23.bases[out_k] - 1)

\* A forward call whose total for x is negative, from a negative weight and
\* a negative bias, has returned a value within the range of the base.
C30_Witness ==
    /\ call23.op = "forward" /\ call23.raised = "None"
    /\ layer23.bases["x"] = 7
    /\ call23.biases["x"] < 0 /\ call23.weights["x"]["a"] < 0
    /\ AffineSum23("x", 1) < 0
    /\ call23.value["x"] \in 0..6
    /\ call23.value["x"] = PyMod(AffineSum23("x", 1), 7)

(***************************************************************************)
(* Claims about two layers of one caller, checked under SpecPeers23.       *)
(***************************************************************************)
\* C23: a forward or backward call on the second layer leaves every weight
\* and every bias of the first layer unchanged, also when both layers were
\* constructed from the same initial_weights argument.
C23_DisjointLayerState ==
    call23.op \in {"peer.forward", "peer.backward"} =>
        /\ w23 = call23.weights
        /\ layer23.biases = call23.biases

(***************************************************************************)
(* Further claims about add and scale_by_int, checked under SpecCarry and  *)
(* SpecChained.                                                            *)
(***************************************************************************)
\* The coefficients that stand for denominators.
Denominators == {"b", "c", "e", "f"}

\* C22: a zero denominator is never an error and is never replaced or
\* evaluated (add and scale_by_int have no failing outcome: they divide by
\* the literal 10 only): a denominator of x that is 0 is still 0 after
\* scale_by_int and after add of an operand whose denominator is 0 too, and
\* the value of that field along the chain of x is unchanged.
C22_ZeroDenominatorsRetained ==
    cop.name \in {"add", "scale_by_int"} =>
        \A fld \in Denominators :
            (cpre[X][fld] = 0 /\ cop.y[fld] = 0) =>
                /\ heap[X][fld] = 0
                /\ ChainValue(heap, X, fld) = ChainValue(cpre, X, fld)

\* x, with zero denominators c and e, has been scaled by 15 after an add:
\* a overflowed into a carry cell, and c and e are 0 in x and in the carry
\* cell.
C22_Witness ==
    /\ cop.name = "scale_by_int" /\ cop.scalar = 15
    /\ cpre[X].a = 7 /\ cpre[X].c = 0 /\ cpre[X].e = 0
    /\ heap[X].left # None
    /\ heap[X].c = 0 /\ heap[X].e = 0
    /\ heap[heap[X].left].c = 0 /\ heap[heap[X].left].e = 0
    /\ heap[heap[X].left].a = 10

\* C26: scale_by_int scales the whole number x stands for: when x has a
\* left chain, the value of every field along the chain afterwards is the
\* scalar times the value before.
C26_ScaleWholeNumber ==
    (cop.name = "scale_by_int" /\ cpre[X].left # None) =>
        \A fld \in Fields :
            ChainValue(heap, X, fld) = cop.scalar * ChainValue(cpre, X, fld)

\* C27: add accounts for the left chain of the other operand: the value of
\* x afterwards is the value of x before plus the value of y with its chain.
C27_AddWholeOperand ==
    (cop.name = "add" /\ "left" \in DOMAIN cop.y) =>
        \A fld \in Fields :
            ChainValue(heap, X, fld) =
                ChainValue(cpre, X, fld) + OperandValue(cop.y, fld)

(***************************************************************************)
(* Claims about the digit lists of Demo24, checked under SpecLayer24.      *)
(***************************************************************************)
\* The digit list of q is non-empty, every digit is in 0..base-1, there is
\* no leading zero unless the list is the single digit 0, and the sign is
\* +1 or -1 and +1 when the value is zero.
WellFormed24(q) ==
    /\ Len(q.digits) >= 1
    /\ \A k \in 1..Len(q.digits) : q.digits[k] \in 0..(q.base - 1)
    /\ Len(q.digits) > 1 => q.digits[Len(q.digits)] # 0
    /\ q.sign \in {1, -1}
    /\ to_int(q) = 0 => q.sign = 1

\* Every weight and every bias of the layer is well formed.
LayerWellFormed24 ==
    \A o \in Range(layer24.output_keys) :
        /\ WellFormed24(layer24.biases[o])
        /\ \A i \in Range(layer24.input_keys) :
              WellFormed24(layer24.weights[o][i])

\* C29: every QuantumNumber reachable through construction, add, forward
\* and train_step with base 10 is well formed: the weights and biases of
\* the layer and the outputs forward returned.
C29_DigitListWellFormed ==
    /\ LayerWellFormed24
    /\ \A o \in DOMAIN out24 : WellFormed24(out24[o])

(***************************************************************************)
(* Claims about the cells of the Demo28 layer, checked under SpecLayer28.  *)
(***************************************************************************)
\* The cells of arena h whose left is the cell c.
Parents(h, c) == {p \in 1..Len(h) : h[p].left = c}

\* The cell reached from p after k steps through left, None when the chain
\* ends before.
RECURSIVE Walk(_, _, _)
Walk(h, p, k) ==
    IF p = None \/ k = 0 THEN p ELSE Walk(h, h[p].left, k - 1)

\* The cells a reference reaches in an acyclic arena: p, p.left, ...
Owned(h, p) == {Walk(h, p, k) : k \in 0..Len(h)} \ {None}

\* The references held by the layer, and those held by the caller's output.
LayerRefs28(layer) ==
    WeightRefs(layer, 1) \o DictRefs(layer.biases, layer.outputs, 1)

\* C25: every carry cell is reached through left from exactly one parent,
\* the weights, biases and outputs are distinct cells without a parent, no
\* cell is reached from two of them, and every left chain is acyclic.
C25_SoleOwnership ==
    LET roots == Roots28(layer28, out28)
    IN  /\ \A j, k \in 1..Len(roots) : j # k => roots[j] # roots[k]
        /\ \A c \in 1..Len(heap28) :
              /\ c \in Range(roots) => Parents(heap28, c) = {}
              /\ c \notin Range(roots) =>
                    Cardinality(Parents(heap28, c)) = 1
              /\ Walk(heap28, c, Len(heap28)) = None
        /\ \A j, k \in 1..Len(roots) :
              j # k =>
                 Owned(heap28, roots[j]) \cap Owned(heap28, roots[k]) = {}

\* After two calls that made carries, a weight, a bias and an output each
\* have a carry cell of their own.
C25_Witness ==
    /\ n28 >= 2
    /\ "x" \in DOMAIN out28
    /\ heap28[out28["x"]].left # None
    /\ heap28[layer28.biases["x"]].left # None
    /\ heap28[layer28.weights["x"]["c"]].left # None
    /\ Cardinality({heap28[out28["x"]].left, heap28[layer28.biases["x"]].left,
                    heap28[layer28.weights["x"]["c"]].left}) = 3

\* The coefficients and flags of the cells p reaches through left, p first.
ChainCells(h, p) ==
    [k \in 1..Len(Chain(h, p)) |-> [h[Chain(h, p)[k]] EXCEPT !.left = None]]

\* C28: forward is read-only on the layer: every weight and bias, with its
\* left chain, is after the call what it was before; the output cells share
\* no cell with a weight or a bias; and a forward call that follows a
\* forward call on the same input returns equal outputs.
C28_ForwardReadOnly ==
    call28.op = "forward" =>
        /\ layer28 = call28.layer
        /\ \A r \in Range(LayerRefs28(layer28)) :
              ChainCells(heap28, r) = ChainCells(call28.heap, r)
        /\ \A r \in Range(LayerRefs28(layer28)), o \in DOMAIN out28 :
              Owned(heap28, r) \cap Owned(heap28, out28[o]) = {}
        /\ (call28.prev.op = "forward" /\ call28.prev.input = call28.input) =>
              /\ DOMAIN out28 = DOMAIN call28.out
              /\ \A o \in DOMAIN out28 :
                    ChainCells(heap28, out28[o]) =
                        ChainCells(call28.heap, call28.out[o])

\* A forward call has followed a forward call on the same input, on a layer
\* that a train_step had changed before, and both returned an output for x
\* with a carry cell.
C28_Witness ==
    /\ call28.op = "forward" /\ call28.prev.op = "forward"
    /\ call28.prev.input = call28.input
    /\ n28 = 3
    /\ heap28[layer28.weights["x"]["a"]].a # 1
    /\ heap28[out28["x"]].left # None
    /\ ChainCells(heap28, out28["x"]) = ChainCells(call28.heap, call28.out["x"])

(***************************************************************************)
(* Claims about the running train_step of Demo28, checked under            *)
(* SpecPipeline28.                                                         *)
(***************************************************************************)
\* What train_step, taken as one step, makes of the state the last call
\* found.
Completed28 ==
    LET r == train_step28(call28.heap, call28.layer, call28.input,
                          call28.target, call28.learning_rate)
        c == Compact(r.heap, Roots28(call28.layer, call28.out))
    IN  [heap |-> c.heap, layer |-> Relocate(call28.layer, c.at),
         out |-> RelocateDict(call28.out, c.at), raised |-> r.raised]

\* The layer and the caller's output now, without the garbage of the arena.
Live28 ==
    LET c == Compact(heap28, Roots28(layer28, out28))
    IN  [heap |-> c.heap, layer |-> Relocate(layer28, c.at),
         out |-> RelocateDict(out28, c.at), raised |-> call28.raised]

\* C24: every train_step that is called eventually returns, the recursive
\* add calls along the left chains included, and when it has returned no
\* call is suspended and the layer is the fully updated one, ready for the
\* next train_step.
C24_TrainStepTerminates ==
    /\ (pc28.phase # "idle") ~> (pc28.phase = "idle")
    /\ [](pc28.phase = "idle" /\ call28.op = "train_step" =>
             /\ pc28 = IdlePos
             /\ Live28 = Completed28)

\* The third train_step has returned; it found a weight with a carry cell
\* on its left chain and an input that overflows the sum of forward, and it
\* changed that weight.
C24_Witness ==
    /\ pc28.phase = "idle" /\ call28.op = "train_step"
    /\ call28.raised = "None" /\ n28 = 3
    /\ call28.input = [a |-> 7, b |-> 8, c |-> 9]
    /\ call28.heap[call28.layer.weights["x"]["a"]].left # None
    /\ ChainCells(heap28, layer28.weights["x"]["a"])
          # ChainCells(call28.heap, call28.layer.weights["x"]["a"])
    /\ Live28 = Completed28

=============================================================================
